---- MODULE Spec2Model ----
(***************************************************************************)
(* Conversation state machine of the PM2.5 health chatbot: the session     *)
(* store (services/state_manager.py), the question sequencer and scoring   *)
(* (services/assessment_service.py, data/questions.py) and the router      *)
(* (handlers/message_handler.py).                                          *)
(*                                                                         *)
(* A text is a sequence of characters; a character is a one-character      *)
(* string, a non-ASCII character is named by its code point ("u0e22").     *)
(***************************************************************************)
EXTENDS Integers, Sequences, FiniteSets, TLC

VARIABLES
  sessions,     \* StateManager._sessions: user_id -> UserSession
  file,         \* contents of STATE_FILE: user_id -> UserSession.to_dict()
  now,          \* the wall clock read by datetime.now()
  msg,          \* the inbound event handled last
  reply,        \* the text the handler returned for it
  is_complete,  \* the flag process_answer returned while handling it
  written,      \* how the last write of the file went ("none": no write yet)
  tasks,        \* the webhook requests in flight: request -> its position
  round_base,   \* history: _sessions when the requests in flight began, or
                \* when the process stopped
  round_log,    \* history: the events handled since then, in that order
  scheduler     \* the SchedulerService singleton, its jobs and their runs

vars ==
  <<sessions, file, now, msg, reply, is_complete, written, tasks, round_base, round_log,
    scheduler>>

----------------------------------------------------------------------------
(* Bounds of the explored inputs *)

\* a generated text is a concatenation of at most MaxParts parts
MaxParts == 2

Users == {"u1"}

----------------------------------------------------------------------------
(* str methods used by the handlers *)

UPPERCASE == <<"A","B","C","D","E","F","G","H","I","J","K","L","M",
               "N","O","P","Q","R","S","T","U","V","W","X","Y","Z">>
LOWERCASE == <<"a","b","c","d","e","f","g","h","i","j","k","l","m",
               "n","o","p","q","r","s","t","u","v","w","x","y","z">>

\* the lower-case form of each upper-case letter
LOWER_OF == [c \in {UPPERCASE[i] : i \in 1..Len(UPPERCASE)} |->
               LOWERCASE[CHOOSE i \in 1..Len(UPPERCASE) : UPPERCASE[i] = c]]

lower_char(c) == IF c \in DOMAIN LOWER_OF THEN LOWER_OF[c] ELSE c

\* str.lower()
lower(text) == [i \in 1..Len(text) |-> lower_char(text[i])]

isspace(c) == c \in {" ", "\t", "\n", "\r"}

RECURSIVE lstrip(_)
lstrip(text) ==
  IF text # <<>> /\ isspace(Head(text)) THEN lstrip(Tail(text)) ELSE text

RECURSIVE rstrip(_)
rstrip(text) ==
  IF text # <<>> /\ isspace(text[Len(text)])
  THEN rstrip(SubSeq(text, 1, Len(text) - 1))
  ELSE text

\* str.strip()
strip(text) == rstrip(lstrip(text))

\* Python's "kw in text" on strings
contains(text, kw) ==
  \E i \in 1..(Len(text) - Len(kw) + 1) :
    \A j \in 1..Len(kw) : text[i + j - 1] = kw[j]

\* decimal digits (category Nd): int() accepts them
ASCII_DIGITS == <<"0","1","2","3","4","5","6","7","8","9">>
THAI_DIGITS == <<"u0e50","u0e51","u0e52","u0e53","u0e54",
                 "u0e55","u0e56","u0e57","u0e58","u0e59">>
\* digits that are not decimal (superscripts): str.isdigit() is true, int() raises
SUPERSCRIPT_DIGITS == {"u00b2", "u00b3", "u00b9"}

isdecimal(c) ==
  \E i \in 1..10 : ASCII_DIGITS[i] = c \/ THAI_DIGITS[i] = c

\* str.isdigit()
isdigit(c) == isdecimal(c) \/ c \in SUPERSCRIPT_DIGITS

\* int(char) of a decimal digit
int_of(c) == (CHOOSE i \in 1..10 : ASCII_DIGITS[i] = c \/ THAI_DIGITS[i] = c) - 1

----------------------------------------------------------------------------
(* handlers/message_handler.py: keyword lists *)

START_KEYWORDS ==
  << <<"u0e1b", "u0e23", "u0e30", "u0e40", "u0e21", "u0e34", "u0e19", "u0e2d", "u0e32", "u0e01", "u0e32", "u0e23">>,
     <<"u0e40", "u0e23", "u0e34", "u0e48", "u0e21", "u0e1b", "u0e23", "u0e30", "u0e40", "u0e21", "u0e34", "u0e19">>,
     <<"u0e15", "u0e23", "u0e27", "u0e08", "u0e2d", "u0e32", "u0e01", "u0e32", "u0e23">>,
     <<"s", "t", "a", "r", "t">>,
     <<"a", "s", "s", "e", "s", "s">>,
     <<"u0e27", "u0e34", "u0e19", "u0e34", "u0e08", "u0e09", "u0e31", "u0e22">> >>

CANCEL_KEYWORDS ==
  << <<"u0e22", "u0e01", "u0e40", "u0e25", "u0e34", "u0e01">>,
     <<"c", "a", "n", "c", "e", "l">>,
     <<"u0e2b", "u0e22", "u0e38", "u0e14">>,
     <<"u0e40", "u0e25", "u0e34", "u0e01">>,
     <<"u0e2d", "u0e2d", "u0e01">> >>

GREETING_KEYWORDS ==
  << <<"u0e2a", "u0e27", "u0e31", "u0e2a", "u0e14", "u0e35">>,
     <<"h", "e", "l", "l", "o">>,
     <<"h", "i">>,
     <<"u0e2b", "u0e27", "u0e31", "u0e14", "u0e14", "u0e35">>,
     <<"u0e14", "u0e35", "u0e04", "u0e23", "u0e31", "u0e1a">>,
     <<"u0e14", "u0e35", "u0e04", "u0e48", "u0e30">> >>

HELP_KEYWORDS ==
  << <<"h", "e", "l", "p">>,
     <<"u0e0a", "u0e48", "u0e27", "u0e22">>,
     <<"u0e27", "u0e34", "u0e18", "u0e35">>,
     <<"u0e43", "u0e0a", "u0e49", "u0e07", "u0e32", "u0e19">>,
     <<"m", "e", "n", "u">>,
     <<"u0e40", "u0e21", "u0e19", "u0e39">> >>

CHECK_DUST_KEYWORDS ==
  << <<"u0e15", "u0e23", "u0e27", "u0e08", "u0e2a", "u0e2d", "u0e1a", "u0e04", "u0e48", "u0e32", "u0e1d", "u0e38", "u0e48", "u0e19">>,
     <<"u0e40", "u0e0a", "u0e47", "u0e04", "u0e04", "u0e48", "u0e32", "u0e1d", "u0e38", "u0e48", "u0e19">>,
     <<"u0e04", "u0e48", "u0e32", "u0e1d", "u0e38", "u0e48", "u0e19", "u0e27", "u0e31", "u0e19", "u0e19", "u0e35", "u0e49">>,
     <<"u0e14", "u0e39", "u0e04", "u0e48", "u0e32", "u0e1d", "u0e38", "u0e48", "u0e19">>,
     <<"p", "m", "2", ".", "5", " ", "u0e27", "u0e31", "u0e19", "u0e19", "u0e35", "u0e49">>,
     <<"u0e04", "u0e48", "u0e32", "u0e1d", "u0e38", "u0e48", "u0e19", "u0e15", "u0e2d", "u0e19", "u0e19", "u0e35", "u0e49">>,
     <<"a", "q", "i">> >>


\* MessageHandler._matches_keywords
matches_keywords(text, keywords) ==
  \E k \in 1..Len(keywords) : contains(text, keywords[k])

----------------------------------------------------------------------------
(* data/questions.py: a question is its id and the scores of its options *)

SYMPTOM_QUESTIONS ==
  << [id |-> "cough",     options |-> <<0, 1, 2>>],
     [id |-> "breathing", options |-> <<0, 1, 2>>],
     [id |-> "eyes",      options |-> <<0, 1, 2>>],
     [id |-> "nose",      options |-> <<0, 1, 2>>],
     [id |-> "skin",      options |-> <<0, 1, 2>>],
     [id |-> "headache",  options |-> <<0, 1, 2>>] >>

RISK_QUESTIONS ==
  << [id |-> "age",       options |-> <<1, 0, 2>>],
     [id |-> "condition", options |-> <<0, 2, 2, 2, 1>>],
     [id |-> "outdoor",   options |-> <<0, 1>>] >>

\* the lists concatenated the other way round
ALL_QUESTIONS_risk_first == RISK_QUESTIONS \o SYMPTOM_QUESTIONS

ALL_QUESTIONS == SYMPTOM_QUESTIONS \o RISK_QUESTIONS

\* the None that get_question returns outside the list
NoQuestion == [id |-> "", options |-> <<>>]

get_question(index) ==
  IF 0 <= index /\ index < Len(ALL_QUESTIONS)
  THEN ALL_QUESTIONS[index + 1]
  ELSE NoQuestion

get_total_questions == Len(ALL_QUESTIONS)

----------------------------------------------------------------------------
(* data/recommendations.py: the tier table, ascending inclusive ranges,    *)
(* the last one without an upper bound                                     *)

RECOMMENDATIONS ==
  << [min |-> 0,  max |-> 3,  unbounded |-> FALSE],
     [min |-> 4,  max |-> 8,  unbounded |-> FALSE],
     [min |-> 9,  max |-> 13, unbounded |-> FALSE],
     [min |-> 14, max |-> 14, unbounded |-> TRUE] >>

in_tier(tier, total_score) ==
  tier.min <= total_score /\ (tier.unbounded \/ total_score <= tier.max)

\* index of the first tier whose range contains the score, 0 for None
get_recommendation(total_score) ==
  IF \E i \in 1..Len(RECOMMENDATIONS) : in_tier(RECOMMENDATIONS[i], total_score)
  THEN CHOOSE i \in 1..Len(RECOMMENDATIONS) :
         /\ in_tier(RECOMMENDATIONS[i], total_score)
         /\ \A j \in 1..(i - 1) : ~in_tier(RECOMMENDATIONS[j], total_score)
  ELSE 0

----------------------------------------------------------------------------
(* data/faq.py: the FAQ list, each entry with its keywords *)

FAQ_DATA ==
  << [keywords |-> << <<"p", "m", "2", ".", "5">> >>],
     [keywords |-> << <<"m", "a", "s", "k">> >>] >>

\* 1-based menu index into the list, 0 for None
get_faq_by_number(num) ==
  IF 1 <= num /\ num <= Len(FAQ_DATA) THEN num ELSE 0

\* first entry one of whose keywords the lower-cased query contains, 0 for None
find_faq(query) ==
  IF \E i \in 1..Len(FAQ_DATA) : matches_keywords(lower(query), FAQ_DATA[i].keywords)
  THEN CHOOSE i \in 1..Len(FAQ_DATA) :
         /\ matches_keywords(lower(query), FAQ_DATA[i].keywords)
         /\ \A j \in 1..(i - 1) : ~matches_keywords(lower(query), FAQ_DATA[j].keywords)
  ELSE 0

----------------------------------------------------------------------------
(* services/state_manager.py *)

IDLE == "idle"
ASSESSMENT == "assessment"
WAITING_CONFIRM == "waiting_confirm"
FAQ_MENU == "faq_menu"
AWAITING_LOCATION == "awaiting_location"

ConversationState ==
  {IDLE, ASSESSMENT, WAITING_CONFIRM, FAQ_MENU, AWAITING_LOCATION}

\* the empty dict
EmptyDict == [k \in {} |-> 0]

\* d[key] += value
dict_add(d, key, value) ==
  IF key \in DOMAIN d THEN (key :> (d[key] + value)) @@ d ELSE (key :> value) @@ d

\* d[key] = value
dict_set(d, key, value) == (key :> value) @@ d

RECURSIVE sum_set(_, _)
sum_set(d, keys) ==
  IF keys = {} THEN 0
  ELSE LET k == CHOOSE x \in keys : TRUE
       IN  d[k] + sum_set(d, keys \ {k})

\* sum(d.values())
sum_values(d) == sum_set(d, DOMAIN d)

\* UserSession.__init__
UserSession(user_id) ==
  [user_id |-> user_id,
   state |-> IDLE,
   current_question_index |-> 0,
   answers |-> EmptyDict,
   total_score |-> 0,
   last_activity |-> now]

\* UserSession.reset
reset(session) ==
  [session EXCEPT !.state = IDLE,
                  !.current_question_index = 0,
                  !.answers = EmptyDict,
                  !.total_score = 0,
                  !.last_activity = now]

\* UserSession.to_dict
to_dict(session) ==
  [user_id |-> session.user_id,
   state |-> session.state,
   current_question_index |-> session.current_question_index,
   answers |-> session.answers,
   total_score |-> session.total_score,
   last_activity |-> session.last_activity]

\* UserSession.from_dict of a record read from the file: the inverse of
\* to_dict; ConversationState(data["state"]) raises for an unknown value
from_dict_raises(data) == data.state \notin ConversationState

from_dict(data) ==
  [user_id |-> data.user_id,
   state |-> data.state,
   current_question_index |-> data.current_question_index,
   answers |-> data.answers,
   total_score |-> data.total_score,
   last_activity |-> data.last_activity]

\* hours after which _load_states drops a session
SESSION_TIMEOUT_HOURS == 24

\* contents of a STATE_FILE that json.load cannot parse: what a write that
\* failed after open(STATE_FILE, "w") leaves behind
TRUNCATED == [k \in {"<truncated>"} |-> "<truncated>"]

\* what one write of the file does: it succeeds, open() raises and the file
\* stays as it was, or json.dump raises and the file is left truncated
WriteOutcomes == {"ok", "open_failed", "dump_failed"}

(* The store is the record st = [sessions, file, writes, written]: the     *)
(* in-memory map, the snapshot file, the outcomes of the writes still to   *)
(* come while one event is handled (a write beyond them succeeds) and the  *)
(* outcome of the last write made. Each method below returns the store     *)
(* after the call.                                                         *)

\* _save_states letting the failure of a write empty the in-memory map
save_states_losing_memory(st) ==
  LET outcome == IF st.writes = <<>> THEN "ok" ELSE Head(st.writes)
      rest == IF st.writes = <<>> THEN <<>> ELSE Tail(st.writes)
  IN  IF outcome = "ok"
      THEN [st EXCEPT !.file = [u \in DOMAIN st.sessions |-> to_dict(st.sessions[u])],
                      !.writes = rest, !.written = outcome]
      ELSE [st EXCEPT !.sessions = EmptyDict, !.writes = rest, !.written = outcome]

\* StateManager._save_states: the except branch only prints
save_states(st) ==
  LET outcome == IF st.writes = <<>> THEN "ok" ELSE Head(st.writes)
      rest == IF st.writes = <<>> THEN <<>> ELSE Tail(st.writes)
  IN  IF outcome = "ok"
      THEN [st EXCEPT !.file = [u \in DOMAIN st.sessions |-> to_dict(st.sessions[u])],
                      !.writes = rest, !.written = outcome]
      ELSE IF outcome = "open_failed"
      THEN [st EXCEPT !.writes = rest, !.written = outcome]
      ELSE [st EXCEPT !.file = TRUNCATED, !.writes = rest, !.written = outcome]

\* the test of _load_states also keeping a session of age 24 hours
within_timeout_inclusive(session) ==
  now - session.last_activity <= SESSION_TIMEOUT_HOURS

\* the test of _load_states:
\* datetime.now() - session.last_activity < timedelta(hours=24)
within_timeout(session) ==
  now - session.last_activity < SESSION_TIMEOUT_HOURS

\* the loop of _load_states over the records of the parsed file, in the
\* order the file lists them: sessions kept so far, and whether a record
\* raised
RECURSIVE load_records(_, _, _)
load_records(data, order, kept) ==
  IF order = <<>> THEN [sessions |-> kept, raised |-> FALSE]
  ELSE IF from_dict_raises(data[Head(order)])
  THEN [sessions |-> kept, raised |-> TRUE]
  ELSE LET session == from_dict(data[Head(order)])
       IN  load_records(data, Tail(order),
             IF within_timeout(session)
             THEN dict_set(kept, Head(order), session)
             ELSE kept)

\* _load_states keeping the sessions read before a record raised
load_states_keeping_partial(contents, order) ==
  IF contents = TRUNCATED THEN EmptyDict
  ELSE load_records(contents, order, EmptyDict).sessions

\* StateManager.__init__ and _load_states: the in-memory map after loading
\* a file whose records are listed in the given order
load_states(contents, order) ==
  IF contents = TRUNCATED THEN EmptyDict
  ELSE LET loaded == load_records(contents, order, EmptyDict)
       IN  IF loaded.raised THEN EmptyDict ELSE loaded.sessions

\* StateManager.get_session: the session it returns is st.sessions[user_id]
get_session(st, user_id) ==
  LET st1 == IF user_id \notin DOMAIN st.sessions
             THEN save_states(
                    [st EXCEPT !.sessions = dict_set(st.sessions, user_id, UserSession(user_id))])
             ELSE st
  IN  [st1 EXCEPT !.sessions[user_id].last_activity = now]

\* update_session changing the session in memory only
update_session_in_memory(st, user_id) ==
  [st EXCEPT !.sessions[user_id].last_activity = now]

\* StateManager.update_session, of the session object held in the map
update_session(st, user_id) ==
  save_states([st EXCEPT !.sessions[user_id].last_activity = now])

\* add_answer computing the score before the answer is stored
add_answer_stale_sum(st, user_id, question_id, score) ==
  LET st1 == get_session(st, user_id)
      answers == dict_set(st1.sessions[user_id].answers, question_id, score)
      st2 == [st1 EXCEPT !.sessions[user_id].answers = answers,
                         !.sessions[user_id].total_score =
                            sum_values(st1.sessions[user_id].answers)]
  IN  update_session(st2, user_id)

\* add_answer adding the score to the total it finds
add_answer_accumulating(st, user_id, question_id, score) ==
  LET st1 == get_session(st, user_id)
      answers == dict_set(st1.sessions[user_id].answers, question_id, score)
      st2 == [st1 EXCEPT !.sessions[user_id].answers = answers,
                         !.sessions[user_id].total_score = @ + score]
  IN  update_session(st2, user_id)

\* StateManager.add_answer
add_answer(st, user_id, question_id, score) ==
  LET st1 == get_session(st, user_id)
      answers == dict_set(st1.sessions[user_id].answers, question_id, score)
      st2 == [st1 EXCEPT !.sessions[user_id].answers = answers,
                         !.sessions[user_id].total_score = sum_values(answers)]
  IN  update_session(st2, user_id)

----------------------------------------------------------------------------
(* What a handler returns: the kind of text, the number it shows (question *)
(* index, number of options, total score or FAQ entry) and the tier of a   *)
(* recommendation.  NONE is Python's None, RAISED an exception that leaves *)
(* the handler.                                                            *)

Reply(kind, arg) == [kind |-> kind, arg |-> arg, tier |-> 0]

NONE == Reply("none", 0)
RAISED == Reply("raised", 0)

\* what a service method hands back: the store after it, its text, its flag
Result(st, response, complete) ==
  [st |-> st, response |-> response, is_complete |-> complete]

----------------------------------------------------------------------------
(* services/assessment_service.py *)

\* AssessmentService._format_question
format_question(index) ==
  IF get_question(index) = NoQuestion THEN NONE ELSE Reply("question", index)

\* start_assessment without the reset of the session
start_assessment_keeping_answers(st, user_id) ==
  LET st1 == get_session(st, user_id)
      session == [st1.sessions[user_id] EXCEPT
                    !.state = ASSESSMENT,
                    !.current_question_index = 0]
      st2 == update_session([st1 EXCEPT !.sessions[user_id] = session], user_id)
  IN  Result(st2, format_question(0), FALSE)

\* AssessmentService.start_assessment
start_assessment(st, user_id) ==
  LET st1 == get_session(st, user_id)
      session == [reset(st1.sessions[user_id]) EXCEPT
                    !.state = ASSESSMENT,
                    !.current_question_index = 0]
      st2 == update_session([st1 EXCEPT !.sessions[user_id] = session], user_id)
  IN  Result(st2, format_question(0), FALSE)

\* the loop of _parse_answer over the stripped text: the first digit within
\* 1..max_options is returned, int() raises on a digit that is not decimal
RECURSIVE parse_scan(_, _)
parse_scan(answer, max_options) ==
  IF answer = <<>> THEN [kind |-> "none", num |-> 0]
  ELSE LET char == Head(answer)
       IN  IF ~isdigit(char) THEN parse_scan(Tail(answer), max_options)
           ELSE IF ~isdecimal(char) THEN [kind |-> "raised", num |-> 0]
           ELSE IF 1 <= int_of(char) /\ int_of(char) <= max_options
                THEN [kind |-> "num", num |-> int_of(char)]
                ELSE parse_scan(Tail(answer), max_options)

\* _parse_answer deciding on the first digit alone
parse_answer_first_digit(answer, max_options) ==
  LET text == strip(answer)
      digits == {i \in 1..Len(text) : isdigit(text[i])}
      char == text[CHOOSE i \in digits : \A j \in digits : i <= j]
  IN  IF digits = {} THEN [kind |-> "none", num |-> 0]
      ELSE IF ~isdecimal(char) THEN [kind |-> "raised", num |-> 0]
      ELSE IF 1 <= int_of(char) /\ int_of(char) <= max_options
           THEN [kind |-> "num", num |-> int_of(char)]
           ELSE [kind |-> "none", num |-> 0]

\* AssessmentService._parse_answer
parse_answer(answer, max_options) == parse_scan(strip(answer), max_options)

\* _complete_assessment looking up the number of answers, not their sum
complete_assessment_by_count(st, user_id) ==
  LET st1 == get_session(st, user_id)
      total_score == st1.sessions[user_id].total_score
      recommendation == get_recommendation(Cardinality(DOMAIN st1.sessions[user_id].answers))
      st2 == update_session([st1 EXCEPT !.sessions[user_id].state = IDLE], user_id)
  IN  IF recommendation = 0
      THEN Result(st2, RAISED, FALSE)
      ELSE Result(st2,
                  [kind |-> "recommendation", arg |-> total_score, tier |-> recommendation],
                  TRUE)

\* _complete_assessment leaving the state as it is
complete_assessment_no_idle(st, user_id) ==
  LET st1 == get_session(st, user_id)
      total_score == st1.sessions[user_id].total_score
      recommendation == get_recommendation(total_score)
      st2 == update_session(st1, user_id)
  IN  IF recommendation = 0
      THEN Result(st2, RAISED, FALSE)
      ELSE Result(st2,
                  [kind |-> "recommendation", arg |-> total_score, tier |-> recommendation],
                  TRUE)

\* AssessmentService._complete_assessment
complete_assessment(st, user_id) ==
  LET st1 == get_session(st, user_id)
      total_score == st1.sessions[user_id].total_score
      recommendation == get_recommendation(total_score)
      st2 == update_session([st1 EXCEPT !.sessions[user_id].state = IDLE], user_id)
  IN  IF recommendation = 0
      THEN Result(st2, RAISED, FALSE)
      ELSE Result(st2,
                  [kind |-> "recommendation", arg |-> total_score, tier |-> recommendation],
                  TRUE)

\* process_answer completing one answer late (> for >=)
process_answer_late(st, user_id, answer) ==
  LET st1 == get_session(st, user_id)
      session == st1.sessions[user_id]
      question == get_question(session.current_question_index)
      answer_num == parse_answer(answer, Len(question.options))
      st2 == add_answer(st1, user_id, question.id, question.options[answer_num.num])
      st3 == get_session(st2, user_id)
      next_index == st3.sessions[user_id].current_question_index + 1
      st4 == [st3 EXCEPT !.sessions[user_id].current_question_index = next_index]
  IN  IF session.state # ASSESSMENT THEN Result(st1, NONE, FALSE)
      ELSE IF question = NoQuestion THEN complete_assessment(st1, user_id)
      ELSE IF answer_num.kind = "raised" THEN Result(st1, RAISED, FALSE)
      ELSE IF answer_num.kind = "none"
           THEN Result(st1, Reply("reprompt", Len(question.options)), FALSE)
      ELSE IF next_index > get_total_questions
           THEN complete_assessment(st4, user_id)
           ELSE Result(update_session(st4, user_id), format_question(next_index), FALSE)

\* process_answer recording the number of the option, not its score
process_answer_recording_number(st, user_id, answer) ==
  LET st1 == get_session(st, user_id)
      session == st1.sessions[user_id]
      question == get_question(session.current_question_index)
      answer_num == parse_answer(answer, Len(question.options))
      st2 == add_answer(st1, user_id, question.id, answer_num.num)
      st3 == get_session(st2, user_id)
      next_index == st3.sessions[user_id].current_question_index + 1
      st4 == [st3 EXCEPT !.sessions[user_id].current_question_index = next_index]
  IN  IF session.state # ASSESSMENT THEN Result(st1, NONE, FALSE)
      ELSE IF question = NoQuestion THEN complete_assessment(st1, user_id)
      ELSE IF answer_num.kind = "raised" THEN Result(st1, RAISED, FALSE)
      ELSE IF answer_num.kind = "none"
           THEN Result(st1, Reply("reprompt", Len(question.options)), FALSE)
      ELSE IF next_index >= get_total_questions
           THEN complete_assessment(st4, user_id)
           ELSE Result(update_session(st4, user_id), format_question(next_index), FALSE)

\* process_answer going on to the next question when no option was selected
process_answer_skipping_unanswered(st, user_id, answer) ==
  LET st1 == get_session(st, user_id)
      session == st1.sessions[user_id]
      question == get_question(session.current_question_index)
      answer_num == parse_answer(answer, Len(question.options))
      st2 == IF answer_num.kind = "num"
             THEN add_answer(st1, user_id, question.id, question.options[answer_num.num])
             ELSE st1
      st3 == get_session(st2, user_id)
      next_index == st3.sessions[user_id].current_question_index + 1
      st4 == [st3 EXCEPT !.sessions[user_id].current_question_index = next_index]
  IN  IF session.state # ASSESSMENT THEN Result(st1, NONE, FALSE)
      ELSE IF question = NoQuestion THEN complete_assessment(st1, user_id)
      ELSE IF answer_num.kind = "raised" THEN Result(st1, RAISED, FALSE)
      ELSE IF next_index >= get_total_questions
           THEN complete_assessment(st4, user_id)
           ELSE Result(update_session(st4, user_id), format_question(next_index), FALSE)

\* AssessmentService.process_answer
process_answer(st, user_id, answer) ==
  LET st1 == get_session(st, user_id)
      session == st1.sessions[user_id]
      question == get_question(session.current_question_index)
      answer_num == parse_answer(answer, Len(question.options))
      st2 == add_answer(st1, user_id, question.id, question.options[answer_num.num])
      st3 == get_session(st2, user_id)
      next_index == st3.sessions[user_id].current_question_index + 1
      st4 == [st3 EXCEPT !.sessions[user_id].current_question_index = next_index]
  IN  IF session.state # ASSESSMENT THEN Result(st1, NONE, FALSE)
      ELSE IF question = NoQuestion THEN complete_assessment(st1, user_id)
      ELSE IF answer_num.kind = "raised" THEN Result(st1, RAISED, FALSE)
      ELSE IF answer_num.kind = "none"
           THEN Result(st1, Reply("reprompt", Len(question.options)), FALSE)
      ELSE IF next_index >= get_total_questions
           THEN complete_assessment(st4, user_id)
           ELSE Result(update_session(st4, user_id), format_question(next_index), FALSE)

\* cancel_assessment setting the state only
cancel_assessment_state_only(st, user_id) ==
  LET st1 == get_session(st, user_id)
      st2 == [st1 EXCEPT !.sessions[user_id].state = IDLE]
  IN  Result(update_session(st2, user_id), Reply("cancel_assessment", 0), FALSE)

\* cancel_assessment resetting the session of every user
cancel_assessment_every_user(st, user_id) ==
  LET st1 == get_session(st, user_id)
      st2 == [st1 EXCEPT !.sessions = [u \in DOMAIN st1.sessions |-> reset(st1.sessions[u])]]
  IN  Result(update_session(st2, user_id), Reply("cancel_assessment", 0), FALSE)

\* AssessmentService.cancel_assessment
cancel_assessment(st, user_id) ==
  LET st1 == get_session(st, user_id)
      st2 == [st1 EXCEPT !.sessions[user_id] = reset(st1.sessions[user_id])]
  IN  Result(update_session(st2, user_id), Reply("cancel_assessment", 0), FALSE)

\* int(s) of a Python string: surrounding blanks, an optional sign, decimal digits
is_int_literal(s) ==
  LET t == strip(s)
      digits == IF t # <<>> /\ Head(t) \in {"+", "-"} THEN Tail(t) ELSE t
  IN  digits # <<>> /\ \A i \in 1..Len(digits) : isdecimal(digits[i])

RECURSIVE decimal_value(_)
decimal_value(digits) ==
  IF digits = <<>> THEN 0
  ELSE 10 * decimal_value(SubSeq(digits, 1, Len(digits) - 1)) + int_of(digits[Len(digits)])

int_literal(s) ==
  LET t == strip(s)
  IN  IF Head(t) = "-" THEN 0 - decimal_value(Tail(t))
      ELSE IF Head(t) = "+" THEN decimal_value(Tail(t))
      ELSE decimal_value(t)

\* AssessmentService.handle_faq_query: the FAQ entry answered, 0 for None
handle_faq_query(query) ==
  IF is_int_literal(query) /\ get_faq_by_number(int_literal(query)) # 0
  THEN get_faq_by_number(int_literal(query))
  ELSE find_faq(query)

----------------------------------------------------------------------------
(* handlers/message_handler.py *)

\* the keyword checks with start tried before check-dust
handle_idle_start_first(st, user_id, text, text_lower) ==
  IF matches_keywords(text_lower, GREETING_KEYWORDS)
  THEN Result(st, Reply("welcome", 0), FALSE)
  ELSE IF matches_keywords(text_lower, HELP_KEYWORDS)
  THEN Result(st, Reply("help", 0), FALSE)
  ELSE IF matches_keywords(text_lower, START_KEYWORDS)
  THEN start_assessment(st, user_id)
  ELSE IF matches_keywords(text_lower, CHECK_DUST_KEYWORDS)
  THEN Result(update_session([st EXCEPT !.sessions[user_id].state = AWAITING_LOCATION], user_id),
              Reply("location_request", 0), FALSE)
  ELSE IF handle_faq_query(text) # 0
  THEN Result(st, Reply("faq", handle_faq_query(text)), FALSE)
  ELSE Result(st, Reply("default", 0), FALSE)

\* the keyword checks with an FAQ answer moving the session to FAQ_MENU
handle_idle_faq_menu(st, user_id, text, text_lower) ==
  IF matches_keywords(text_lower, GREETING_KEYWORDS)
  THEN Result(st, Reply("welcome", 0), FALSE)
  ELSE IF matches_keywords(text_lower, HELP_KEYWORDS)
  THEN Result(st, Reply("help", 0), FALSE)
  ELSE IF matches_keywords(text_lower, CHECK_DUST_KEYWORDS)
  THEN Result(update_session([st EXCEPT !.sessions[user_id].state = AWAITING_LOCATION], user_id),
              Reply("location_request", 0), FALSE)
  ELSE IF matches_keywords(text_lower, START_KEYWORDS)
  THEN start_assessment(st, user_id)
  ELSE IF handle_faq_query(text) # 0
  THEN Result(update_session([st EXCEPT !.sessions[user_id].state = FAQ_MENU], user_id),
              Reply("faq", handle_faq_query(text)), FALSE)
  ELSE Result(st, Reply("default", 0), FALSE)

\* the keyword checks with the greeting clearing the session
handle_idle_greeting_resets(st, user_id, text, text_lower) ==
  IF matches_keywords(text_lower, GREETING_KEYWORDS)
  THEN Result(update_session([st EXCEPT !.sessions[user_id] = reset(st.sessions[user_id])],
                             user_id),
              Reply("welcome", 0), FALSE)
  ELSE IF matches_keywords(text_lower, HELP_KEYWORDS)
  THEN Result(st, Reply("help", 0), FALSE)
  ELSE IF matches_keywords(text_lower, CHECK_DUST_KEYWORDS)
  THEN Result(update_session([st EXCEPT !.sessions[user_id].state = AWAITING_LOCATION], user_id),
              Reply("location_request", 0), FALSE)
  ELSE IF matches_keywords(text_lower, START_KEYWORDS)
  THEN start_assessment(st, user_id)
  ELSE IF handle_faq_query(text) # 0
  THEN Result(st, Reply("faq", handle_faq_query(text)), FALSE)
  ELSE Result(st, Reply("default", 0), FALSE)

\* handle_message from the greeting check on
handle_idle(st, user_id, text, text_lower) ==
  IF matches_keywords(text_lower, GREETING_KEYWORDS)
  THEN Result(st, Reply("welcome", 0), FALSE)
  ELSE IF matches_keywords(text_lower, HELP_KEYWORDS)
  THEN Result(st, Reply("help", 0), FALSE)
  ELSE IF matches_keywords(text_lower, CHECK_DUST_KEYWORDS)
  THEN Result(update_session([st EXCEPT !.sessions[user_id].state = AWAITING_LOCATION], user_id),
              Reply("location_request", 0), FALSE)
  ELSE IF matches_keywords(text_lower, START_KEYWORDS)
  THEN start_assessment(st, user_id)
  ELSE IF handle_faq_query(text) # 0
  THEN Result(st, Reply("faq", handle_faq_query(text)), FALSE)
  ELSE Result(st, Reply("default", 0), FALSE)

\* handle_message without the reminder while a location is awaited
handle_other_no_reminder(st, user_id, text, text_lower, complete) ==
  LET r == handle_idle(st, user_id, text, text_lower)
  IN  Result(r.st, r.response, complete)

\* handle_message after the cancel check
handle_other(st, user_id, text, text_lower, complete) ==
  IF st.sessions[user_id].state = AWAITING_LOCATION
  THEN Result(st, Reply("location_request", 0), complete)
  ELSE LET r == handle_idle(st, user_id, text, text_lower)
       IN  Result(r.st, r.response, complete)

\* handle_message trying the text as an answer before the cancel check
handle_message_answer_first(st, user_id, text) ==
  LET text_lower == strip(lower(text))
      st1 == get_session(st, user_id)
      state == st1.sessions[user_id].state
      answered == process_answer(st1, user_id, text)
  IN  IF state = ASSESSMENT /\ answered.response.kind \notin {"none", "reprompt"}
      THEN answered
      ELSE IF /\ state \in {ASSESSMENT, AWAITING_LOCATION}
              /\ matches_keywords(text_lower, CANCEL_KEYWORDS)
      THEN IF state = ASSESSMENT
           THEN cancel_assessment(st1, user_id)
           ELSE Result(update_session([st1 EXCEPT !.sessions[user_id].state = IDLE], user_id),
                       Reply("cancel_location", 0), FALSE)
      ELSE IF state = ASSESSMENT
      THEN IF answered.response # NONE
           THEN answered
           ELSE handle_other(answered.st, user_id, text, text_lower, answered.is_complete)
      ELSE handle_other(st1, user_id, text, text_lower, FALSE)

\* handle_message taking a text that selects no option of the question asked
\* as a command of the Idle table
handle_message_commands_in_assessment(st, user_id, text) ==
  LET text_lower == strip(lower(text))
      st1 == get_session(st, user_id)
      state == st1.sessions[user_id].state
      answered == process_answer(st1, user_id, text)
  IN  IF /\ state \in {ASSESSMENT, AWAITING_LOCATION}
         /\ matches_keywords(text_lower, CANCEL_KEYWORDS)
      THEN IF state = ASSESSMENT
           THEN cancel_assessment(st1, user_id)
           ELSE Result(update_session([st1 EXCEPT !.sessions[user_id].state = IDLE], user_id),
                       Reply("cancel_location", 0), FALSE)
      ELSE IF state = ASSESSMENT /\ answered.response.kind \notin {"none", "reprompt"}
      THEN answered
      ELSE handle_other(st1, user_id, text, text_lower, FALSE)

\* MessageHandler.handle_message
handle_message(st, user_id, text) ==
  LET text_lower == strip(lower(text))
      st1 == get_session(st, user_id)
      state == st1.sessions[user_id].state
      answered == process_answer(st1, user_id, text)
  IN  IF /\ state \in {ASSESSMENT, AWAITING_LOCATION}
         /\ matches_keywords(text_lower, CANCEL_KEYWORDS)
      THEN IF state = ASSESSMENT
           THEN cancel_assessment(st1, user_id)
           ELSE Result(update_session([st1 EXCEPT !.sessions[user_id].state = IDLE], user_id),
                       Reply("cancel_location", 0), FALSE)
      ELSE IF state = ASSESSMENT
      THEN IF answered.response # NONE
           THEN answered
           ELSE handle_other(answered.st, user_id, text, text_lower, answered.is_complete)
      ELSE handle_other(st1, user_id, text, text_lower, FALSE)

\* what DustService.get_dust_report_by_location does for the coordinates:
\* it returns the report of the nearest station, returns the text that no
\* station was found, or raises on a malformed station record
DustLookups == {"dust_report", "no_station", "raised"}

\* handle_location resetting the state only when a location was awaited
handle_location_when_awaited(st, user_id, lookup) ==
  LET st1 == get_session(st, user_id)
      state == IF st1.sessions[user_id].state = AWAITING_LOCATION
               THEN IDLE
               ELSE st1.sessions[user_id].state
      st2 == update_session([st1 EXCEPT !.sessions[user_id].state = state], user_id)
  IN  Result(st2, Reply(lookup, 0), FALSE)

\* MessageHandler.handle_location
handle_location(st, user_id, lookup) ==
  LET st1 == get_session(st, user_id)
      st2 == update_session([st1 EXCEPT !.sessions[user_id].state = IDLE], user_id)
  IN  Result(st2, Reply(lookup, 0), FALSE)

----------------------------------------------------------------------------
(* The explored inputs *)

\* the pieces generated texts are built from: a keyword of the cancel and of
\* the start class, an option every question has ("2") and one no question
\* has ("0")
Parts ==
  { <<"c", "a", "n", "c", "e", "l">>,
    <<"s", "t", "a", "r", "t">>,
    <<"2">>, <<"0">> }

RECURSIVE TextsOfParts(_)
TextsOfParts(n) ==
  IF n = 0 THEN {<<>>}
  ELSE TextsOfParts(n - 1) \cup {t \o p : t \in TextsOfParts(n - 1), p \in Parts}

\* further texts: check-dust, greeting, help and FAQ keywords alone and
\* with other keywords, an option only "condition" has ("5"), letters,
\* upper case, blanks, Thai keywords and digits, superscript digits
ExtraTexts ==
  { <<"a", "q", "i">>,
    <<"a", "q", "i", "s", "t", "a", "r", "t">>,
    <<"s", "t", "a", "r", "t", "a", "q", "i">>,
    <<"a", "q", "i", "c", "a", "n", "c", "e", "l">>,
    <<"a", "q", "i", "2">>,
    <<"h", "i">>,
    <<"H", "i">>,
    <<"h", "i", " ", "s", "t", "a", "r", "t">>,
    <<"a", "q", "i", " ", "h", "e", "l", "l", "o">>,
    <<"h", "i", "c", "a", "n", "c", "e", "l">>,
    <<"h", "e", "l", "p">>,
    <<"h", "e", "l", "p", " ", "s", "t", "a", "r", "t">>,
    <<"s", "t", "a", "r", "t", " ", "h", "i">>,
    <<"m", "e", "n", "u", " ", "a", "q", "i">>,
    <<"C", "A", "N", "C", "E", "L">>,
    <<"S", "t", "a", "r", "t", " ">>,
    <<"x">>,
    <<"x", "2">>,
    <<"5">>,
    <<"5", "2">>,
    <<"7", "0">>,
    <<" ", "2", " ">>,
    <<" ">>,
    <<"u0e52">>,
    <<"u00b2">>,
    <<"u00b2", "2">>,
    <<"2", "u00b2">>,
    <<"0", "u00b2">>,
    <<"u0e22", "u0e01", "u0e40", "u0e25", "u0e34", "u0e01">>,
    <<"u0e1b", "u0e23", "u0e30", "u0e40", "u0e21", "u0e34", "u0e19",
      "u0e2d", "u0e32", "u0e01", "u0e32", "u0e23">>,
    <<"m", "a", "s", "k">>,
    <<"-", "2">>,
    <<"p", "m", "2", ".", "5", " ", "u0e27", "u0e31", "u0e19", "u0e19", "u0e35", "u0e49">> }

Texts == TextsOfParts(MaxParts) \cup ExtraTexts

TextMessage(user_id, text) ==
  [type |-> "text", user_id |-> user_id, text |-> text, lookup |-> "none"]

LocationMessage(user_id, lookup) ==
  [type |-> "location", user_id |-> user_id, text |-> <<>>, lookup |-> lookup]

NoMessage == [type |-> "none", user_id |-> "", text |-> <<>>, lookup |-> "none"]

\* the webhook requests that can be in flight at once
Requests == {"d1", "d2"}

\* a request slot with no request in it
NoTask ==
  [pc |-> "idle", signature_valid |-> TRUE, events |-> <<>>, received |-> 0,
   replied |-> 0, errors |-> 0, response |-> NONE, status |-> 0]

----------------------------------------------------------------------------
(* The state machine *)

\* SchedulerService.__init__: not started, no job; no firing has happened and
\* no broadcast_job is running
SchedulerService ==
  [started |-> FALSE, jobs |-> EmptyDict, firings |-> <<>>, pc |-> "idle"]

\* StateManager.__init__ with no state file: no session, nothing handled yet
Init ==
  /\ sessions = EmptyDict
  /\ file = EmptyDict
  /\ now = 0
  /\ msg = NoMessage
  /\ reply = NONE
  /\ is_complete = FALSE
  /\ written = "none"
  /\ tasks = [d \in Requests |-> NoTask]
  /\ round_base = EmptyDict
  /\ round_log = <<>>
  /\ scheduler = SchedulerService

\* the store as an event finds it, every write of its handling succeeding
Store == [sessions |-> sessions, file |-> file, writes |-> <<>>, written |-> written]

\* main.handle_text_message: one text event of a user through handle_message
HandleTextMessage(user_id, text) ==
  LET r == handle_message(Store, user_id, text)
  IN  /\ sessions' = r.st.sessions
      /\ file' = r.st.file
      /\ msg' = TextMessage(user_id, text)
      /\ reply' = r.response
      /\ is_complete' = r.is_complete
      /\ written' = r.st.written
      /\ UNCHANGED <<now, tasks, round_base, round_log, scheduler>>

\* main.handle_location_message: one location event through handle_location
HandleLocationMessage(user_id, lookup) ==
  LET r == handle_location(Store, user_id, lookup)
  IN  /\ sessions' = r.st.sessions
      /\ file' = r.st.file
      /\ msg' = LocationMessage(user_id, lookup)
      /\ reply' = r.response
      /\ is_complete' = r.is_complete
      /\ written' = r.st.written
      /\ UNCHANGED <<now, tasks, round_base, round_log, scheduler>>

Next ==
  \/ \E user_id \in Users, text \in Texts : HandleTextMessage(user_id, text)
  \/ \E user_id \in Users, lookup \in DustLookups : HandleLocationMessage(user_id, lookup)

Spec == Init /\ [][Next]_vars

----------------------------------------------------------------------------
(* Vocabulary of the properties *)

N == get_total_questions

\* the session a handler finds for the user: the stored one, or the fresh
\* one get_session creates
SessionIn(map, user_id) ==
  IF user_id \in DOMAIN map THEN map[user_id] ELSE UserSession(user_id)

\* this step handles a text event of the user
TextStep(user_id) == msg'.type = "text" /\ msg'.user_id = user_id

\* this step handles a location event of the user
LocationStep(user_id) == msg'.type = "location" /\ msg'.user_id = user_id

HasKeyword(text, keywords) == matches_keywords(strip(lower(text)), keywords)

\* the question a session in assessment is at
CurrentQuestion(session) == get_question(session.current_question_index)

\* positions of the stripped text that hold a decimal digit
DigitPositions(text) ==
  {i \in 1..Len(strip(text)) : isdecimal(strip(text)[i])}

\* positions that hold a decimal digit within 1..max_options
ValidPositions(text, max_options) ==
  {i \in DigitPositions(text) :
     1 <= int_of(strip(text)[i]) /\ int_of(strip(text)[i]) <= max_options}

Min(set) == CHOOSE x \in set : \A y \in set : x <= y

\* positions that hold a digit that is not decimal
NonDecimalPositions(text) ==
  {i \in 1..Len(strip(text)) :
     isdigit(strip(text)[i]) /\ ~isdecimal(strip(text)[i])}

\* every character str.isdigit() accepts is a decimal digit
OnlyDecimalDigits(text) == NonDecimalPositions(text) = {}

\* the text selects an option: it has a decimal digit within 1..max_options
\* and no digit that is not decimal before the first such digit
SelectsOption(text, max_options) ==
  /\ ValidPositions(text, max_options) # {}
  /\ \A j \in NonDecimalPositions(text) : j > Min(ValidPositions(text, max_options))

\* the option it selects
SelectedOption(text, max_options) ==
  int_of(strip(text)[Min(ValidPositions(text, max_options))])

\* the step handles a text that selects an option of the current question
\* of a session in assessment, and no cancel keyword
ValidAnswerStep(user_id) ==
  /\ TextStep(user_id)
  /\ SessionIn(sessions, user_id).state = ASSESSMENT
  /\ ~HasKeyword(msg'.text, CANCEL_KEYWORDS)
  /\ SelectsOption(msg'.text,
                   Len(CurrentQuestion(SessionIn(sessions, user_id)).options))

\* state, index, answers and score of the user's session are as before
SessionKept(user_id) ==
  LET old == SessionIn(sessions, user_id)
      new == SessionIn(sessions', user_id)
  IN  /\ new.state = old.state
      /\ new.current_question_index = old.current_question_index
      /\ new.answers = old.answers
      /\ new.total_score = old.total_score

----------------------------------------------------------------------------
(* C1: between message handlings, the total score of every session equals  *)
(* the sum of the values currently in its answers mapping.                 *)
C1_TotalScoreIsSum ==
  \A u \in DOMAIN sessions :
    sessions[u].total_score = sum_values(sessions[u].answers)

\* a session with several answers recorded and a positive score
C1_Witness ==
  \E u \in DOMAIN sessions :
    /\ Cardinality(DOMAIN sessions[u].answers) >= 3
    /\ sessions[u].total_score >= 3

(* C2: after start the index is 0; every valid answer moves the index one  *)
(* step; is_complete is returned exactly on the valid answer that moves it *)
(* to N, and the session is then Idle, otherwise still in assessment.      *)
C2_SequencerMonotonic ==
  [][\A u \in Users :
       LET old == SessionIn(sessions, u)
           new == SessionIn(sessions', u)
       IN  /\ (TextStep(u) /\ reply'.kind = "question" /\ old.state # ASSESSMENT)
                => new.current_question_index = 0
           /\ ValidAnswerStep(u) =>
                /\ new.current_question_index = old.current_question_index + 1
                /\ is_complete' = (new.current_question_index = N)
                /\ new.state = IF is_complete' THEN IDLE ELSE ASSESSMENT
           /\ (msg'.user_id = u /\ is_complete') =>
                /\ ValidAnswerStep(u)
                /\ old.current_question_index = N - 1
     ]_vars

\* the N-th valid answer has just been handled
C2_Witness ==
  /\ is_complete
  /\ msg.type = "text"
  /\ sessions[msg.user_id].current_question_index = N
  /\ sessions[msg.user_id].state = IDLE

(* C3 as stated: in assessment, a text with no digit, or whose first digit *)
(* is outside 1..number of options of the current question, gets the range *)
(* re-prompt, is_complete false, and leaves index, answers, score and      *)
(* state as they were.  (Stated for texts whose digits are all decimal; it *)
(* fails there already.)                                                   *)
C3_FirstDigitDecides ==
  [][\A u \in Users :
       LET old == SessionIn(sessions, u)
           max_options == Len(CurrentQuestion(old).options)
           text == strip(msg'.text)
           first == int_of(text[Min(DigitPositions(msg'.text))])
       IN  ( /\ TextStep(u)
             /\ old.state = ASSESSMENT
             /\ ~HasKeyword(msg'.text, CANCEL_KEYWORDS)
             /\ OnlyDecimalDigits(msg'.text)
             /\ \/ DigitPositions(msg'.text) = {}
                \/ ~(1 <= first /\ first <= max_options) )
           => /\ reply' = Reply("reprompt", max_options)
              /\ ~is_complete'
              /\ SessionKept(u)
     ]_vars

(* C3 amended: parsing takes the first digit of the text that lies within  *)
(* 1..number of options, skipping digits outside the range.  For a text    *)
(* whose digit characters are all decimal: if no digit lies within the     *)
(* range, the range re-prompt is returned with is_complete false and       *)
(* index, answers, score and state are unchanged; otherwise the option of  *)
(* the first digit within the range is recorded under the current question *)
(* and the index advances.                                                 *)
C3_FirstDigitInRangeDecides ==
  [][\A u \in Users :
       LET old == SessionIn(sessions, u)
           new == SessionIn(sessions', u)
           question == CurrentQuestion(old)
           max_options == Len(question.options)
       IN  ( /\ TextStep(u)
             /\ old.state = ASSESSMENT
             /\ ~HasKeyword(msg'.text, CANCEL_KEYWORDS)
             /\ OnlyDecimalDigits(msg'.text) )
           => IF ValidPositions(msg'.text, max_options) = {}
              THEN /\ reply' = Reply("reprompt", max_options)
                   /\ ~is_complete'
                   /\ SessionKept(u)
              ELSE /\ question.id \in DOMAIN new.answers
                   /\ new.answers[question.id] =
                        question.options[SelectedOption(msg'.text, max_options)]
                   /\ new.current_question_index = old.current_question_index + 1
     ]_vars

\* a text with a digit, none within the range of the question asked, got
\* the re-prompt
C3_Witness ==
  /\ msg.type = "text"
  /\ reply.kind = "reprompt"
  /\ DigitPositions(msg.text) # {}
  /\ sessions[msg.user_id].state = ASSESSMENT
  /\ sessions[msg.user_id].current_question_index > 0

(* C4: a cancel keyword in assessment, after any number of answers, leaves *)
(* the session with no answers, score 0, index 0 and state Idle; the start *)
(* that follows it begins at question 0 with no answers.                   *)
C4_CancelClearsState ==
  [][\A u \in Users :
       LET old == SessionIn(sessions, u)
           new == SessionIn(sessions', u)
       IN  /\ ( /\ TextStep(u)
                /\ old.state = ASSESSMENT
                /\ HasKeyword(msg'.text, CANCEL_KEYWORDS) )
              => /\ new.answers = EmptyDict
                 /\ new.total_score = 0
                 /\ new.current_question_index = 0
                 /\ new.state = IDLE
                 /\ reply' = Reply("cancel_assessment", 0)
           /\ ( /\ TextStep(u)
                /\ reply = Reply("cancel_assessment", 0)
                /\ msg.user_id = u
                /\ HasKeyword(msg'.text, START_KEYWORDS)
                /\ ~HasKeyword(msg'.text, GREETING_KEYWORDS)
                /\ ~HasKeyword(msg'.text, HELP_KEYWORDS)
                /\ ~HasKeyword(msg'.text, CHECK_DUST_KEYWORDS) )
              => /\ new.state = ASSESSMENT
                 /\ new.current_question_index = 0
                 /\ new.answers = EmptyDict
                 /\ new.total_score = 0
                 /\ reply' = Reply("question", 0)
     ]_vars

\* an assessment has just been cancelled
C4_Witness ==
  /\ msg.type = "text"
  /\ HasKeyword(msg.text, CANCEL_KEYWORDS)
  /\ reply = Reply("cancel_assessment", 0)
  /\ sessions[msg.user_id].state = IDLE
  /\ sessions[msg.user_id].answers = EmptyDict

(* C5: right after the answer that completes an assessment, the answers    *)
(* mapping of the session is empty.                                        *)
C5_AnswersClearedOnCompletion ==
  is_complete => sessions[msg.user_id].answers = EmptyDict

(* C6: a session in assessment always has a question to ask (its index is  *)
(* below the number of questions), and a step that takes the index to the  *)
(* end leaves the session Idle and returns a recommendation.               *)
C6_IndexWithinQuestions ==
  [][\A u \in Users :
       LET old == SessionIn(sessions, u)
           new == SessionIn(sessions', u)
       IN  /\ new.state = ASSESSMENT => new.current_question_index < N
           /\ new.current_question_index <= N
           /\ ( /\ new.current_question_index >= N
                /\ old.current_question_index < N )
              => /\ new.state = IDLE
                 /\ reply'.kind = "recommendation"
     ]_vars

\* the index is at the end, the session Idle, a recommendation returned
C6_Witness ==
  /\ msg.type = "text"
  /\ sessions[msg.user_id].current_question_index = N
  /\ sessions[msg.user_id].state = IDLE
  /\ reply.kind = "recommendation"

(* C7: in assessment or awaiting a location, a text with a cancel keyword  *)
(* is a cancellation whatever else it contains: the session becomes Idle   *)
(* and the acknowledgment of the state left is returned.                   *)
C7_CancelWins ==
  [][\A u \in Users :
       LET old == SessionIn(sessions, u)
           new == SessionIn(sessions', u)
       IN  ( /\ TextStep(u)
             /\ old.state \in {ASSESSMENT, AWAITING_LOCATION}
             /\ HasKeyword(msg'.text, CANCEL_KEYWORDS) )
           => /\ new.state = IDLE
              /\ ~is_complete'
              /\ new.current_question_index <= old.current_question_index
              /\ reply' = IF old.state = ASSESSMENT
                          THEN Reply("cancel_assessment", 0)
                          ELSE Reply("cancel_location", 0)
     ]_vars

\* a text with a cancel keyword and a valid option was handled as a cancel
C7_Witness ==
  /\ msg.type = "text"
  /\ HasKeyword(msg.text, CANCEL_KEYWORDS)
  /\ ValidPositions(msg.text, 2) # {}
  /\ reply = Reply("cancel_assessment", 0)
  /\ sessions[msg.user_id].state = IDLE

\* the classes of the Idle table, in its order
IdleClasses ==
  <<GREETING_KEYWORDS, HELP_KEYWORDS, CHECK_DUST_KEYWORDS, START_KEYWORDS>>

\* the first class of the table the text matches, 5 when it matches none
FirstClass(text) ==
  Min({i \in 1..4 : HasKeyword(text, IdleClasses[i])} \cup {5})

(* C8: in Idle the classes greeting, help, check-dust, start are tried in  *)
(* this order and only the first that matches acts: greeting and help      *)
(* leave the session Idle whatever else the text contains, check-dust goes *)
(* to awaiting-location even with a start keyword, start goes to           *)
(* assessment, anything else is an FAQ answer or the default text.         *)
C8_IdleFirstMatchWins ==
  [][\A u \in Users :
       LET old == SessionIn(sessions, u)
           new == SessionIn(sessions', u)
           class == FirstClass(msg'.text)
       IN  (TextStep(u) /\ old.state = IDLE)
           => /\ class = 1 => (reply'.kind = "welcome" /\ new.state = IDLE)
              /\ class = 2 => (reply'.kind = "help" /\ new.state = IDLE)
              /\ class = 3 => /\ reply'.kind = "location_request"
                              /\ new.state = AWAITING_LOCATION
              /\ class = 4 => /\ reply' = Reply("question", 0)
                              /\ new.state = ASSESSMENT
              /\ class = 5 => /\ reply'.kind \in {"faq", "default"}
                              /\ new.state = IDLE
     ]_vars

\* a text with a check-dust and a start keyword led to awaiting-location
C8_Witness ==
  /\ msg.type = "text"
  /\ HasKeyword(msg.text, CHECK_DUST_KEYWORDS)
  /\ HasKeyword(msg.text, START_KEYWORDS)
  /\ reply.kind = "location_request"
  /\ sessions[msg.user_id].state = AWAITING_LOCATION
  /\ sessions[msg.user_id].current_question_index = 0

(* C9: while a location is awaited, every text without a cancel keyword    *)
(* gets the location request again and the session stays as it is.         *)
C9_AwaitingLocationReminds ==
  [][\A u \in Users :
       ( /\ TextStep(u)
         /\ SessionIn(sessions, u).state = AWAITING_LOCATION
         /\ ~HasKeyword(msg'.text, CANCEL_KEYWORDS) )
       => /\ reply' = Reply("location_request", 0)
          /\ SessionKept(u)
     ]_vars

\* a text with a start keyword changed nothing while a location was awaited
C9_Witness ==
  /\ msg.type = "text"
  /\ HasKeyword(msg.text, START_KEYWORDS)
  /\ ~HasKeyword(msg.text, CHECK_DUST_KEYWORDS)
  /\ reply = Reply("location_request", 0)
  /\ sessions[msg.user_id].state = AWAITING_LOCATION

(* C10: a location message leaves the session Idle from every state,       *)
(* whatever the station lookup gives, and what is returned is the outcome  *)
(* of the lookup, not a cancellation.                                      *)
C10_LocationResetsToIdle ==
  [][\A u \in Users :
       LocationStep(u)
       => /\ SessionIn(sessions', u).state = IDLE
          /\ reply'.kind = msg'.lookup
          /\ reply'.kind \notin {"cancel_assessment", "cancel_location"}
     ]_vars

\* a location whose lookup found no station ended an assessment under way
C10_Witness ==
  /\ msg.type = "location"
  /\ msg.lookup = "no_station"
  /\ sessions[msg.user_id].state = IDLE
  /\ sessions[msg.user_id].current_question_index \in 1..(N - 1)
  /\ sessions[msg.user_id].answers # EmptyDict

----------------------------------------------------------------------------
(* main.py: webhook requests in flight on the one event loop. A request    *)
(* runs until it awaits: handle_message has no await, handle_location      *)
(* awaits the dust lookup after update_session, and handle_text_message    *)
(* and handle_location_message await reply_message.                        *)
(*   pc = "dispatch": in the for loop, events still to dispatch            *)
(*   pc = "lookup":   awaiting get_dust_report_by_location                 *)
(*   pc = "reply":    awaiting reply_message                               *)
(*   pc = "done":     the status of the response is decided                *)

\* the events of one round of requests in flight
MaxRound == 2

WebhookTexts == { <<"s", "t", "a", "r", "t">>, <<"2">>, <<"u00b2">> }

WebhookEvents ==
  {TextMessage(u, t) : u \in Users, t \in WebhookTexts}
    \cup {LocationMessage(u, l) : u \in Users, l \in {"dust_report", "raised"}}

\* the events parser.parse finds in a request body: one event, or two texts
WebhookBodies ==
  {<<e>> : e \in WebhookEvents}
    \cup {<<TextMessage(u, t1), TextMessage(u, t2)>> :
            u \in Users, t1 \in WebhookTexts, t2 \in WebhookTexts}

\* webhook taking the events of a body whatever its signature
webhook_unverified(body, signature_valid) ==
  [NoTask EXCEPT !.pc = "dispatch",
                 !.signature_valid = signature_valid,
                 !.events = body,
                 !.received = Len(body)]

\* main.webhook up to its for loop: parser.parse raises InvalidSignatureError
\* for a body whose signature does not verify, answered by status 400
webhook(body, signature_valid) ==
  IF signature_valid
  THEN [NoTask EXCEPT !.pc = "dispatch",
                      !.events = body,
                      !.received = Len(body)]
  ELSE [NoTask EXCEPT !.pc = "done",
                      !.signature_valid = FALSE,
                      !.status = 400]

\* handle_message or handle_location, by the type of the event
handle_event(st, event) ==
  IF event.type = "text"
  THEN handle_message(st, event.user_id, event.text)
  ELSE handle_location(st, event.user_id, event.lookup)

\* a handler working on the sessions as they were when the round began
handler_store_stale == [Store EXCEPT !.sessions = round_base]

\* the store a handler works on: get_session reads _sessions, and the
\* session object it returns is the one update_session writes, in one run
\* of the event loop
handler_store == Store

\* events of the requests in flight that are not handled yet
RECURSIVE pending_events(_)
pending_events(ds) ==
  IF ds = {} THEN 0
  ELSE LET d == CHOOSE x \in ds : TRUE
       IN  Len(tasks[d].events) + pending_events(ds \ {d})

\* a request arrives: main.webhook to the start of its for loop
Webhook(d, body, signature_valid) ==
  /\ tasks[d].pc = "idle"
  /\ Len(round_log) + pending_events(Requests) + Len(body) <= MaxRound
     \/ \A x \in Requests : tasks[x].pc = "idle"
  /\ tasks' = [tasks EXCEPT ![d] = webhook(body, signature_valid)]
  /\ IF \A x \in Requests : tasks[x].pc = "idle"
     THEN round_base' = sessions /\ round_log' = <<>>
     ELSE UNCHANGED <<round_base, round_log>>
  /\ UNCHANGED <<sessions, file, now, msg, reply, is_complete, written, scheduler>>

\* the for loop dispatches its next event: handle_text_message to its await
\* of reply_message, handle_location_message to the await of the dust
\* lookup; an exception of the handler leaves main.webhook (status 500)
HandleEvent(d) ==
  /\ tasks[d].pc = "dispatch"
  /\ tasks[d].events # <<>>
  /\ LET event == Head(tasks[d].events)
         r == handle_event(handler_store, event)
     IN  /\ sessions' = r.st.sessions
         /\ file' = r.st.file
         /\ msg' = event
         /\ reply' = r.response
         /\ is_complete' = r.is_complete
         /\ written' = r.st.written
         /\ round_log' = Append(round_log, event)
         /\ tasks' = [tasks EXCEPT ![d] =
              IF event.type = "location"
              THEN [@ EXCEPT !.pc = "lookup", !.events = Tail(@), !.response = r.response]
              ELSE IF r.response = RAISED
              THEN [@ EXCEPT !.pc = "done", !.events = Tail(@), !.status = 500]
              ELSE [@ EXCEPT !.pc = "reply", !.events = Tail(@), !.response = r.response]]
  /\ UNCHANGED <<now, round_base, scheduler>>

\* the dust lookup returns its text or raises
LookupReturns(d) ==
  /\ tasks[d].pc = "lookup"
  /\ tasks' = [tasks EXCEPT ![d] =
       IF tasks[d].response = RAISED
       THEN [@ EXCEPT !.pc = "done", !.status = 500]
       ELSE [@ EXCEPT !.pc = "reply"]]
  /\ UNCHANGED <<sessions, file, now, msg, reply, is_complete, written, round_base, round_log, scheduler>>

\* reply_message returns or raises; the except branch logs the error, and
\* the for loop goes on to the next event or webhook returns status "ok"
SendReply(d, sent) ==
  /\ tasks[d].pc = "reply"
  /\ tasks' = [tasks EXCEPT ![d] =
       [@ EXCEPT !.replied = @ + 1,
                 !.errors = IF sent THEN @ ELSE @ + 1,
                 !.pc = IF tasks[d].events = <<>> THEN "done" ELSE "dispatch",
                 !.status = IF tasks[d].events = <<>> THEN 200 ELSE 0]]
  /\ UNCHANGED <<sessions, file, now, msg, reply, is_complete, written, round_base, round_log, scheduler>>

\* the response of the request is sent back
Respond(d) ==
  /\ tasks[d].pc = "done"
  /\ tasks' = [tasks EXCEPT ![d] = NoTask]
  /\ UNCHANGED <<sessions, file, now, msg, reply, is_complete, written, round_base, round_log, scheduler>>

NextWebhook ==
  \/ \E d \in Requests, body \in WebhookBodies, signature_valid \in BOOLEAN :
       Webhook(d, body, signature_valid)
  \/ \E d \in Requests : HandleEvent(d)
  \/ \E d \in Requests : LookupReturns(d)
  \/ \E d \in Requests, sent \in BOOLEAN : SendReply(d, sent)
  \/ \E d \in Requests : Respond(d)

SpecWebhook == Init /\ [][NextWebhook]_vars

\* the store after handling the events one after the other
RECURSIVE replay(_, _)
replay(st, events) ==
  IF events = <<>> THEN st
  ELSE replay(handle_event(st, Head(events)).st, Tail(events))

\* the orders in which the events of a sequence can be taken
Orders(events) ==
  {[i \in 1..Len(events) |-> events[p[i]]] : p \in Permutations(1..Len(events))}

\* the request is in flight and its event has been handled
Handled(d) == tasks[d].pc \in {"lookup", "reply", "done"} /\ tasks[d].signature_valid

----------------------------------------------------------------------------
(* C11: the sessions in memory are always those that handling the events   *)
(* of the requests in flight one after the other, in some order, produces  *)
(* from the sessions the requests found; for two requests of one user in   *)
(* flight together no recorded answer is lost.                             *)
C11_RequestsSerialized ==
  \E order \in Orders(round_log) :
    replay([Store EXCEPT !.sessions = round_base], order).sessions
      = sessions

\* two requests of one user in flight together, each with an answer to a
\* question of the assessment, both handled and awaiting their reply
C11_Witness ==
  /\ \A d \in Requests : tasks[d].pc = "reply" /\ tasks[d].received = 1
  /\ Len(round_log) = 2
  /\ \A i \in 1..2 : round_log[i] = TextMessage("u1", <<"2">>)
  /\ "u1" \in DOMAIN round_base
  /\ round_base["u1"].state = ASSESSMENT
  /\ sessions["u1"].current_question_index = round_base["u1"].current_question_index + 2
  /\ Cardinality(DOMAIN sessions["u1"].answers)
       = Cardinality(DOMAIN round_base["u1"].answers) + 2

----------------------------------------------------------------------------
(* services/state_manager.py over the life of the process and its          *)
(* restarts: events handled one at a time with writes of the file that     *)
(* can fail, the clock advancing, and the process restarting from the      *)
(* file.                                                                   *)

\* the clock runs to MaxNow hours
MaxNow == 24

\* hours the clock advances at once
Advances == {12}

StoreEvents ==
  { TextMessage("u1", <<"s", "t", "a", "r", "t">>),
    TextMessage("u1", <<"2">>),
    TextMessage("u1", <<"x">>) }

\* outcomes of the writes made while one event is handled
WriteSeqs == {<<first, second>> : first \in WriteOutcomes, second \in WriteOutcomes}

\* the orders in which the parsed file can list its records
RecordOrders(contents) ==
  IF contents = TRUNCATED THEN {<<>>}
  ELSE {order \in [1..Cardinality(DOMAIN contents) -> DOMAIN contents] :
          \A i, j \in DOMAIN order : order[i] = order[j] => i = j}

TickMessage == [NoMessage EXCEPT !.type = "tick"]

RestartMessage == [NoMessage EXCEPT !.type = "restart"]

\* one event through its handler, the writes of the file going as given
StoreHandleEvent(event, writes) ==
  LET r == handle_event([Store EXCEPT !.writes = writes], event)
  IN  /\ sessions' = r.st.sessions
      /\ file' = r.st.file
      /\ msg' = event
      /\ reply' = r.response
      /\ is_complete' = r.is_complete
      /\ written' = r.st.written
      /\ UNCHANGED <<now, tasks, round_base, round_log, scheduler>>

\* datetime.now() moves on
Tick(hours) ==
  /\ now + hours <= MaxNow
  /\ now' = now + hours
  /\ msg' = TickMessage
  /\ UNCHANGED <<sessions, file, reply, is_complete, written, tasks, round_base, round_log, scheduler>>

\* the process restarts: StateManager.__init__ loads the file
Restart(order) ==
  /\ sessions' = load_states(file, order)
  /\ msg' = RestartMessage
  /\ reply' = NONE
  /\ is_complete' = FALSE
  /\ UNCHANGED <<file, now, written, tasks, round_base, round_log, scheduler>>

NextStore ==
  \/ \E event \in StoreEvents, writes \in WriteSeqs : StoreHandleEvent(event, writes)
  \/ \E hours \in Advances : Tick(hours)
  \/ \E order \in RecordOrders(file) : Restart(order)

SpecStore == Init /\ [][NextStore]_vars

\* state, index, answers and score of the record are those of the session
SameConversation(record, session) ==
  /\ record.state = session.state
  /\ record.current_question_index = session.current_question_index
  /\ record.answers = session.answers
  /\ record.total_score = session.total_score

\* the file holds the conversation of every user in memory
PersistedMatches(contents, map) ==
  /\ contents # TRUNCATED
  /\ \A u \in DOMAIN map :
       u \in DOMAIN contents /\ SameConversation(contents[u], map[u])

\* this step is a restart of the process
RestartStep == msg'.type = "restart"

\* this step handles an event
EventStep == msg'.type \in {"text", "location"}

\* hours since the last activity the file records for the user
PersistedAge(user_id) == now - file[user_id].last_activity

----------------------------------------------------------------------------
(* C12: between handlings, when the last write of the file succeeded, the  *)
(* file holds for every user in memory the state, index, answers and total *)
(* score of the in-memory session; a restart while the persisted last      *)
(* activity is within the timeout brings the user back in memory with the  *)
(* same state, index, answers and total score.                             *)
C12_PersistedStateSurvives ==
  [][ /\ written' = "ok" => PersistedMatches(file', sessions')
      /\ RestartStep /\ written = "ok" =>
           \A u \in DOMAIN sessions :
             PersistedAge(u) < SESSION_TIMEOUT_HOURS =>
               /\ u \in DOMAIN sessions'
               /\ SameConversation(sessions'[u], sessions[u]) ]_vars

\* after a restart twelve hours after the last write, the user is in memory
\* at the third question of the assessment with two answers
C12_Witness ==
  /\ msg.type = "restart"
  /\ written = "ok"
  /\ "u1" \in DOMAIN sessions
  /\ sessions["u1"].state = ASSESSMENT
  /\ sessions["u1"].current_question_index = 2
  /\ Cardinality(DOMAIN sessions["u1"].answers) = 2
  /\ PersistedAge("u1") = 12

----------------------------------------------------------------------------
(* C13: a restart that can read the file leaves out of memory every user   *)
(* whose persisted last activity is 24 hours old or older and brings in    *)
(* every user whose persisted last activity is less than 24 hours old; the *)
(* first event of a user who is not in memory is handled from a fresh      *)
(* session: no answers, index 0, score 0, idle unless the event starts an  *)
(* assessment.                                                             *)
C13_ExpiryOnLoad ==
  [][ /\ RestartStep /\ file # TRUNCATED =>
           \A u \in DOMAIN file :
             /\ PersistedAge(u) >= SESSION_TIMEOUT_HOURS => u \notin DOMAIN sessions'
             /\ PersistedAge(u) < SESSION_TIMEOUT_HOURS => u \in DOMAIN sessions'
      /\ EventStep /\ msg'.user_id \notin DOMAIN sessions =>
           LET new == sessions'[msg'.user_id]
           IN  /\ new.answers = EmptyDict
               /\ new.current_question_index = 0
               /\ new.total_score = 0
               /\ new.state = IF HasKeyword(msg'.text, START_KEYWORDS)
                              THEN ASSESSMENT ELSE IDLE ]_vars

\* a restart exactly 24 hours after the last write of a user in assessment:
\* the record is in the file and the user is not in memory
C13_Witness ==
  /\ msg.type = "restart"
  /\ file # TRUNCATED
  /\ "u1" \in DOMAIN file
  /\ file["u1"].state = ASSESSMENT
  /\ PersistedAge("u1") = SESSION_TIMEOUT_HOURS
  /\ "u1" \notin DOMAIN sessions

----------------------------------------------------------------------------
(* C14: every get_session persists the refreshed last activity: when the   *)
(* last write of the file succeeded, the file holds for every user in      *)
(* memory a last activity that is not older than the one in memory.        *)
C14_GetPersistsActivity ==
  written = "ok" =>
    \A u \in DOMAIN sessions :
      /\ file # TRUNCATED
      /\ u \in DOMAIN file
      /\ file[u].last_activity >= sessions[u].last_activity

----------------------------------------------------------------------------
(* services/state_manager.py and assessment_service.py called directly:    *)
(* add_answer with any question id and score, in any order and repeatedly, *)
(* and _complete_assessment on the score that results.                     *)

\* scores recorded are 0..MaxScore
MaxScore == 6

\* ids of a symptom question and of two risk questions
RecordIds == {ALL_QUESTIONS[1].id, ALL_QUESTIONS[7].id, ALL_QUESTIONS[9].id}

RecordMessage(user_id, question_id, score) ==
  [type |-> "record", user_id |-> user_id, question_id |-> question_id, score |-> score]

CompleteMessage(user_id) == [NoMessage EXCEPT !.type = "complete", !.user_id = user_id]

\* one call of StateManager.add_answer
RecordAnswer(user_id, question_id, score) ==
  LET st == add_answer(Store, user_id, question_id, score)
  IN  /\ sessions' = st.sessions
      /\ file' = st.file
      /\ written' = st.written
      /\ msg' = RecordMessage(user_id, question_id, score)
      /\ reply' = NONE
      /\ is_complete' = FALSE
      /\ UNCHANGED <<now, tasks, round_base, round_log, scheduler>>

\* one call of AssessmentService._complete_assessment
CompleteAssessment(user_id) ==
  LET r == complete_assessment(Store, user_id)
  IN  /\ sessions' = r.st.sessions
      /\ file' = r.st.file
      /\ written' = r.st.written
      /\ msg' = CompleteMessage(user_id)
      /\ reply' = r.response
      /\ is_complete' = r.is_complete
      /\ UNCHANGED <<now, tasks, round_base, round_log, scheduler>>

NextRecord ==
  \/ \E user_id \in Users, question_id \in RecordIds, score \in 0..MaxScore :
       RecordAnswer(user_id, question_id, score)
  \/ \E user_id \in Users : CompleteAssessment(user_id)

SpecRecord == Init /\ [][NextRecord]_vars

\* the store after this step
StoreAfter == [sessions |-> sessions', file |-> file', writes |-> <<>>, written |-> written']

----------------------------------------------------------------------------
(* C15: add_answer is idempotent and overwrites: repeating a call with the *)
(* same user, question id and score changes nothing, and a call for a      *)
(* question id that has an answer replaces its score, leaves the other     *)
(* answers and the number of keys as they were, and gives a total score    *)
(* counting only the new score for that id.                                *)
C15_RecordAnswerOverwrites ==
  [][ msg'.type = "record" =>
        LET u == msg'.user_id
            q == msg'.question_id
            old == SessionIn(sessions, u)
            new == sessions'[u]
            again == add_answer(StoreAfter, u, q, msg'.score)
        IN  /\ again.sessions = sessions'
            /\ again.file = file'
            /\ new.answers[q] = msg'.score
            /\ q \in DOMAIN old.answers =>
                 /\ DOMAIN new.answers = DOMAIN old.answers
                 /\ \A k \in DOMAIN old.answers \ {q} : new.answers[k] = old.answers[k]
                 /\ new.total_score = sum_values(old.answers) - old.answers[q] + msg'.score ]_vars

\* all three ids have an answer and the last call stored the score 5 for an
\* id whose two companions have the scores 1 and 2
C15_Witness ==
  /\ msg.type = "record"
  /\ msg.score = 5
  /\ DOMAIN sessions["u1"].answers = RecordIds
  /\ sessions["u1"].answers[msg.question_id] = 5
  /\ sessions["u1"].total_score = 8

----------------------------------------------------------------------------
(* services/state_manager.py with a file that cannot be loaded: events of  *)
(* two users, writes that leave the file truncated, a record of the file   *)
(* damaged from outside, and restarts.                                     *)

LoadUsers == {"u1", "u2"}

LoadEvents ==
  { TextMessage("u1", <<"s", "t", "a", "r", "t">>),
    TextMessage("u1", <<"2">>),
    TextMessage("u2", <<"x">>) }

\* every write succeeds, or the first one fails in json.dump
LoadWrites == {<<>>, <<"dump_failed">>}

DamageMessage(user_id) == [NoMessage EXCEPT !.type = "damage", !.user_id = user_id]

\* the state of a record of the file is overwritten from outside by a
\* value that is no ConversationState
DamageRecord(user_id) ==
  /\ file # TRUNCATED
  /\ user_id \in DOMAIN file
  /\ file[user_id].state \in ConversationState
  /\ file' = [file EXCEPT ![user_id].state = "unknown"]
  /\ written' = "external"
  /\ msg' = DamageMessage(user_id)
  /\ UNCHANGED <<sessions, now, reply, is_complete, tasks, round_base, round_log, scheduler>>

NextLoad ==
  \/ \E event \in LoadEvents, writes \in LoadWrites : StoreHandleEvent(event, writes)
  \/ \E order \in RecordOrders(file) : Restart(order)
  \/ \E user_id \in LoadUsers : DamageRecord(user_id)

SpecLoad == Init /\ [][NextLoad]_vars

\* json.load or from_dict raises while the file is loaded
LoadRaises(contents) ==
  \/ contents = TRUNCATED
  \/ \E u \in DOMAIN contents : from_dict_raises(contents[u])

----------------------------------------------------------------------------
(* C16: a restart from a file that cannot be parsed, or that has a record  *)
(* from_dict cannot rebuild, wherever that record comes in the file,       *)
(* completes with no session in memory.                                    *)
C16_FailedLoadStartsEmpty ==
  [][ RestartStep /\ LoadRaises(file) => sessions' = EmptyDict ]_vars

\* after a restart from a file with the intact, unexpired record of one
\* user and a damaged record of the other, memory is empty
C16_Witness ==
  /\ msg.type = "restart"
  /\ file # TRUNCATED
  /\ DOMAIN file = LoadUsers
  /\ file["u1"].state = ASSESSMENT
  /\ within_timeout(from_dict(file["u1"]))
  /\ from_dict_raises(file["u2"])
  /\ sessions = EmptyDict

----------------------------------------------------------------------------
(* C17: whatever the outcomes of the writes made while an event is         *)
(* handled, the sessions in memory, the reply and the completion flag are  *)
(* those of a handling whose writes all succeed; and when the last write   *)
(* had failed and the last write of this handling succeeds, the file holds *)
(* the to_dict of every session in memory.                                 *)
C17_WriteFailureSwallowed ==
  [][ EventStep =>
        LET r == handle_event(Store, msg')
        IN  /\ sessions' = r.st.sessions
            /\ reply' = r.response
            /\ is_complete' = r.is_complete
            /\ written \in {"open_failed", "dump_failed"} /\ written' = "ok" =>
                 file' = [u \in DOMAIN sessions' |-> to_dict(sessions'[u])] ]_vars

\* an answer was recorded and the next question returned although the
\* write left the file truncated
C17_Witness ==
  /\ msg.type = "text"
  /\ msg.text = <<"2">>
  /\ written = "dump_failed"
  /\ file = TRUNCATED
  /\ reply.kind = "question"
  /\ sessions["u1"].state = ASSESSMENT
  /\ sessions["u1"].current_question_index = 2
  /\ Cardinality(DOMAIN sessions["u1"].answers) = 2

----------------------------------------------------------------------------
(* C18: when the response of a request with a valid signature is decided,  *)
(* reply_message has been called exactly once for each event of the        *)
(* request, whether the call succeeded or failed.                          *)
C18_ExactlyOneReply ==
  \A d \in Requests :
    tasks[d].pc = "done" /\ tasks[d].signature_valid =>
      tasks[d].replied = tasks[d].received

----------------------------------------------------------------------------
(* C19: a request whose signature does not verify is answered by status    *)
(* 400 at once: none of its events is dispatched, no reply is sent for it, *)
(* and the step that receives it leaves sessions and file as they were.    *)
C19_InvalidSignatureRejected ==
  [][ \A d \in Requests :
        ~tasks'[d].signature_valid =>
          /\ tasks'[d].pc = "done"
          /\ tasks'[d].status = 400
          /\ tasks'[d].replied = 0
          /\ tasks'[d].events = <<>>
          /\ tasks[d].pc = "idle" =>
               /\ sessions' = sessions
               /\ file' = file ]_vars

\* a request with an invalid signature was rejected while the user has a
\* session in assessment and the other request awaits its reply
C19_Witness ==
  /\ ~tasks["d1"].signature_valid
  /\ tasks["d1"].status = 400
  /\ tasks["d2"].pc = "reply"
  /\ "u1" \in DOMAIN sessions
  /\ sessions["u1"].state = ASSESSMENT

\* the greatest total score the questions allow
RECURSIVE max_of(_)
max_of(scores) ==
  IF Len(scores) = 1 THEN scores[1]
  ELSE LET rest == max_of(Tail(scores))
       IN  IF scores[1] >= rest THEN scores[1] ELSE rest

RECURSIVE max_total(_)
max_total(questions) ==
  IF questions = <<>> THEN 0
  ELSE max_of(Head(questions).options) + max_total(Tail(questions))

----------------------------------------------------------------------------
(* C20: _complete_assessment finds a recommendation for every total score: *)
(* the tier it returns is the only tier whose inclusive range contains the *)
(* score; the top of a tier's range gets that tier and one more gets the   *)
(* next tier.                                                              *)
C20_OneTierPerScore ==
  msg.type = "complete" =>
    LET total_score == sessions[msg.user_id].total_score
        tiers == 1..Len(RECOMMENDATIONS)
    IN  /\ reply.kind = "recommendation"
        /\ reply.tier \in tiers
        /\ in_tier(RECOMMENDATIONS[reply.tier], total_score)
        /\ \A j \in tiers \ {reply.tier} : ~in_tier(RECOMMENDATIONS[j], total_score)
        /\ \A i \in tiers :
             ~RECOMMENDATIONS[i].unbounded =>
               /\ total_score = RECOMMENDATIONS[i].max => reply.tier = i
               /\ total_score = RECOMMENDATIONS[i].max + 1 => reply.tier = i + 1

\* the recommendation for the greatest score an assessment can produce
C20_Witness ==
  /\ msg.type = "complete"
  /\ sessions[msg.user_id].total_score = max_total(ALL_QUESTIONS)
  /\ reply.kind = "recommendation"
  /\ reply.tier = Len(RECOMMENDATIONS)

\* ids of the first k questions
FirstIds(k) == {ALL_QUESTIONS[i].id : i \in 1..k}

----------------------------------------------------------------------------
(* C21: the recommendation returned on the N-th valid answer shows the     *)
(* total score, and that score is the sum of the scores of the options     *)
(* selected in this pass: a session in assessment holds answers for the    *)
(* questions asked so far and no others, a valid answer stores the score   *)
(* of the selected option under the id of the current question and leaves  *)
(* the other answers alone, and the completing answer returns the          *)
(* recommendation showing the sum of the N answers.                        *)
C21_ScoreIsSumOfSelected ==
  [][ \A u \in Users :
        LET old == SessionIn(sessions, u)
            new == SessionIn(sessions', u)
            question == CurrentQuestion(old)
        IN  /\ new.state = ASSESSMENT =>
                 DOMAIN new.answers = FirstIds(new.current_question_index)
            /\ ValidAnswerStep(u) =>
                 new.answers =
                   dict_set(old.answers, question.id,
                            question.options[SelectedOption(msg'.text, Len(question.options))])
            /\ TextStep(u) /\ is_complete' =>
                 /\ ValidAnswerStep(u)
                 /\ reply'.kind = "recommendation"
                 /\ DOMAIN new.answers = FirstIds(N)
                 /\ reply'.arg = sum_values(new.answers) ]_vars

\* a pass completed with option 5 for "condition" and option 2 for the
\* other questions: the recommendation shows the score 8
C21_Witness ==
  /\ is_complete
  /\ reply.kind = "recommendation"
  /\ reply.arg = 8
  /\ sessions["u1"].answers["condition"] = 1
  /\ sessions["u1"].answers["age"] = 0

\* the k-th question of an assessment: the symptom questions in their
\* order, then the risk questions in theirs
KthQuestion(k) ==
  IF k <= Len(SYMPTOM_QUESTIONS)
  THEN SYMPTOM_QUESTIONS[k]
  ELSE RISK_QUESTIONS[k - Len(SYMPTOM_QUESTIONS)]

----------------------------------------------------------------------------
(* C22: the prompts of an assessment follow one fixed order, symptom       *)
(* questions first and risk questions second: the start of an assessment   *)
(* returns question 1 of N, every question returned to a session at index  *)
(* k - 1 is the k-th question of that order with progress k/N, and the     *)
(* k-th valid answer is recorded under the id of that question and is      *)
(* followed, before the last, by question k + 1.                           *)
C22_FixedQuestionOrder ==
  [][ \A u \in Users :
        LET old == SessionIn(sessions, u)
            new == SessionIn(sessions', u)
            k == old.current_question_index + 1
        IN  /\ TextStep(u) /\ old.state # ASSESSMENT /\ new.state = ASSESSMENT =>
                 reply' = Reply("question", 0)
            /\ TextStep(u) /\ reply'.kind = "question" =>
                 /\ new.state = ASSESSMENT
                 /\ reply'.arg = new.current_question_index
                 /\ reply'.arg + 1 <= Len(SYMPTOM_QUESTIONS) + Len(RISK_QUESTIONS)
                 /\ get_total_questions = Len(SYMPTOM_QUESTIONS) + Len(RISK_QUESTIONS)
                 /\ get_question(reply'.arg) = KthQuestion(reply'.arg + 1)
            /\ ValidAnswerStep(u) =>
                 /\ DOMAIN new.answers = DOMAIN old.answers \cup {KthQuestion(k).id}
                 /\ new.current_question_index = k
                 /\ k < N => reply' = Reply("question", k) ]_vars

\* the sixth valid answer was recorded under the id of the last symptom
\* question and the first risk question is returned as question 7 of 9
C22_Witness ==
  /\ msg.type = "text"
  /\ reply = Reply("question", 6)
  /\ get_question(reply.arg).id = "age"
  /\ sessions["u1"].state = ASSESSMENT
  /\ sessions["u1"].current_question_index = 6
  /\ DOMAIN sessions["u1"].answers = {SYMPTOM_QUESTIONS[i].id : i \in 1..6}

----------------------------------------------------------------------------
(* C23: after any sequence of text and location events, from no session at *)
(* all, the state of every session is IDLE, ASSESSMENT or                  *)
(* AWAITING_LOCATION, never WAITING_CONFIRM or FAQ_MENU.                   *)
C23_ReservedStatesUnreachable ==
  \A u \in DOMAIN sessions :
    sessions[u].state \in {IDLE, ASSESSMENT, AWAITING_LOCATION}

\* a user who had completed an assessment asked for the dust level and is
\* reminded to share a location
C23_Witness ==
  /\ msg.type = "text"
  /\ reply.kind = "location_request"
  /\ sessions["u1"].state = AWAITING_LOCATION
  /\ sessions["u1"].current_question_index = N
  /\ ~HasKeyword(msg.text, CHECK_DUST_KEYWORDS)

----------------------------------------------------------------------------
(* services/dust_service.py: the report for a shared location. A station   *)
(* of the fetched list is [distance, reading]: its haversine distance to   *)
(* the location and what its record holds under AQILast.PM25.value.        *)

\* the fetched list has at most MaxStations stations
MaxStations == 2

\* AQILast is null; PM25 is missing; value is None; value is the number 0;
\* value is the text "0"; value is a text float() cannot parse ("-");
\* value is the text of a positive number ("35")
Readings ==
  {"null_aqilast", "no_pm25", "none", "number_0", "text_0", "text_dash", "text_35"}

Distances == {1, 2}

Stations == [distance : Distances, reading : Readings]

RECURSIVE StationLists(_)
StationLists(n) ==
  IF n = 0 THEN {<<>>}
  ELSE StationLists(n - 1)
         \cup {list \o <<station>> : list \in StationLists(n - 1), station \in Stations}

\* Python's truth value of pm25 and of pm25.get("value")
truthy(reading) == reading \in {"text_0", "text_dash", "text_35"}

\* float(value) raises ValueError
float_raises(reading) == reading = "text_dash"

\* aqi_data.get("PM25", {}) raises AttributeError on a null AQILast
get_raises(reading) == reading = "null_aqilast"

\* the loop of get_nearest_station from station i on: the index of the
\* nearest station so far (0 for None), its distance, and whether a
\* station raised
RECURSIVE nearest_scan(_, _, _, _)
nearest_scan(stations, i, nearest, min_distance) ==
  IF i > Len(stations) THEN [raised |-> FALSE, nearest |-> nearest]
  ELSE IF get_raises(stations[i].reading) THEN [raised |-> TRUE, nearest |-> 0]
  ELSE IF ~truthy(stations[i].reading)
  THEN nearest_scan(stations, i + 1, nearest, min_distance)
  ELSE IF nearest = 0 \/ stations[i].distance < min_distance
  THEN nearest_scan(stations, i + 1, i, stations[i].distance)
  ELSE nearest_scan(stations, i + 1, nearest, min_distance)

\* DustService.get_nearest_station; an empty or failed fetch gives None
get_nearest_station(stations) ==
  IF stations = <<>> THEN [raised |-> FALSE, nearest |-> 0]
  ELSE nearest_scan(stations, 1, 0, 0)

\* DustService.get_dust_report_by_location: the report of a station, the
\* text that no station was found, or the exception
get_dust_report_by_location(stations) ==
  LET station_data == get_nearest_station(stations)
  IN  IF station_data.raised THEN RAISED
      ELSE IF station_data.nearest # 0
              /\ truthy(stations[station_data.nearest].reading)
              /\ ~float_raises(stations[station_data.nearest].reading)
      THEN Reply("dust_report", station_data.nearest)
      ELSE Reply("no_station", 0)

StationsMessage(user_id, stations) ==
  [type |-> "location", user_id |-> user_id, text |-> <<>>,
   lookup |-> get_dust_report_by_location(stations).kind, stations |-> stations]

\* main.handle_location_message: one location event through handle_location
\* and the dust lookup over the fetched stations
HandleLocationStations(user_id, stations) ==
  LET report == get_dust_report_by_location(stations)
      r == handle_location(Store, user_id, report.kind)
  IN  /\ report.kind \in DustLookups
      /\ sessions' = r.st.sessions
      /\ file' = r.st.file
      /\ written' = r.st.written
      /\ msg' = StationsMessage(user_id, stations)
      /\ reply' = report
      /\ is_complete' = r.is_complete
      /\ UNCHANGED <<now, tasks, round_base, round_log, scheduler>>

NextDust ==
  \E user_id \in Users, stations \in StationLists(MaxStations) :
    HandleLocationStations(user_id, stations)

SpecDust == Init /\ [][NextDust]_vars

\* the stations of the list whose reading is a positive number
ValidStations(stations) ==
  {i \in 1..Len(stations) : stations[i].reading = "text_35"}

----------------------------------------------------------------------------
(* C24: whenever a station of the fetched list has a valid reading, the    *)
(* reply to the location is the report of a station with a valid reading   *)
(* that no other station with a valid reading is nearer than.              *)
C24_NearestValidStation ==
  msg.type = "location" /\ ValidStations(msg.stations) # {} =>
    /\ reply.kind = "dust_report"
    /\ reply.arg \in ValidStations(msg.stations)
    /\ \A j \in ValidStations(msg.stations) :
         msg.stations[reply.arg].distance <= msg.stations[j].distance


(* The broadcast scheduler: main.lifespan, SchedulerService, BroadcastService *)

\* the days the clock runs through
MaxDays == 2

\* main.lifespan: the daily (hour, minute) firing times
BROADCAST_TIMES == <<[hour |-> 11, minute |-> 0]>>

\* what the headless fetch of the report page ends in: the image is found, the
\* page holds no suitable image, or a step times out and raises
ImageFetches == {"found", "no_image", "timeout"}

\* what the POST to the broadcast endpoint ends in: status 200, another
\* status, or the request times out and raises
Posts == {"200", "500", "timeout"}

NoUrl == "None"

\* BroadcastService.get_pm25_image_url: every exception is caught and logged
get_pm25_image_url(fetch) == IF fetch = "found" THEN "url" ELSE NoUrl

\* BroadcastService.broadcast_image: every exception is caught and logged
broadcast_image(post) == post = "200"

\* SchedulerService.add_multiple_broadcast_times: one job per time, its id
\* made of the position of the time (0-based)
add_multiple_broadcast_times(jobs, times) ==
  [i \in (DOMAIN jobs) \cup {k - 1 : k \in 1..Len(times)} |->
     IF i + 1 \in 1..Len(times) THEN times[i + 1] ELSE jobs[i]]

\* a firing as the cron trigger starts it: broadcast_job has called
\* broadcast_pm25_report once and nothing is logged yet
Firing(id, at) ==
  [job |-> id, at |-> at, calls |-> 1, fetch |-> "pending", post |-> "none",
   logged |-> "running"]

update_last(firings, firing) == [firings EXCEPT ![Len(firings)] = firing]

\* broadcast_job retrying a failed broadcast once more within the firing
broadcast_job_retrying(sch, success) ==
  LET firing == sch.firings[Len(sch.firings)]
  IN IF ~success /\ firing.calls < 2
     THEN [sch EXCEPT !.firings = update_last(sch.firings,
                                     [firing EXCEPT !.calls = 2, !.fetch = "pending"]),
                      !.pc = "image"]
     ELSE [sch EXCEPT !.firings = update_last(sch.firings,
                        [firing EXCEPT !.logged = IF success THEN "completed" ELSE "failed"]),
                      !.pc = "idle"]

\* broadcast_job removing its job from the scheduler when the broadcast failed
broadcast_job_unscheduling(sch, success) ==
  LET firing == sch.firings[Len(sch.firings)]
  IN [sch EXCEPT !.firings = update_last(sch.firings,
                   [firing EXCEPT !.logged = IF success THEN "completed" ELSE "failed"]),
                 !.jobs = IF success THEN sch.jobs ELSE EmptyDict,
                 !.pc = "idle"]

\* broadcast_job after broadcast_pm25_report returned: it logs the outcome and
\* ends; the job stays in the scheduler
broadcast_job(sch, success) ==
  LET firing == sch.firings[Len(sch.firings)]
  IN [sch EXCEPT !.firings = update_last(sch.firings,
                   [firing EXCEPT !.logged = IF success THEN "completed" ELSE "failed"]),
                 !.pc = "idle"]

\* the jobs whose trigger matches the clock and that have not fired at it
Due(sch, clock) ==
  {id \in DOMAIN sch.jobs :
     /\ sch.started
     /\ sch.jobs[id].hour = clock % 24
     /\ \A i \in 1..Len(sch.firings) :
          ~(sch.firings[i].job = id /\ sch.firings[i].at = clock)}

\* main.lifespan before the yield: start the scheduler, add the daily jobs
Startup ==
  /\ ~scheduler.started
  /\ scheduler' = [scheduler EXCEPT
                     !.started = TRUE,
                     !.jobs = add_multiple_broadcast_times(scheduler.jobs, BROADCAST_TIMES)]
  /\ UNCHANGED <<sessions, file, msg, now, reply, is_complete, written, tasks, round_base,
                 round_log>>

\* an hour passes; a due job fires before the clock moves on, and a run of
\* broadcast_job (bounded by the timeouts of its calls) ends within the hour
Hour ==
  /\ now < MaxDays * 24
  /\ scheduler.pc = "idle"
  /\ Due(scheduler, now) = {}
  /\ now' = now + 1
  /\ UNCHANGED <<sessions, file, msg, reply, is_complete, written, tasks, round_base,
                 round_log, scheduler>>

\* the cron trigger of a job fires: broadcast_job runs up to the first await of
\* broadcast_pm25_report, the fetch of the image URL
Fire(id) ==
  /\ scheduler.pc = "idle"
  /\ id \in Due(scheduler, now)
  /\ scheduler' = [scheduler EXCEPT !.firings = Append(scheduler.firings, Firing(id, now)),
                                    !.pc = "image"]
  /\ UNCHANGED <<sessions, file, msg, now, reply, is_complete, written, tasks, round_base,
                 round_log>>

\* get_pm25_image_url returns: without a URL broadcast_pm25_report returns
\* False to broadcast_job, with one it goes on to await broadcast_image
ImageReturns(fetch) ==
  /\ scheduler.pc = "image"
  /\ LET sch == [scheduler EXCEPT !.firings = update_last(scheduler.firings,
                   [scheduler.firings[Len(scheduler.firings)] EXCEPT !.fetch = fetch])]
     IN scheduler' = IF get_pm25_image_url(fetch) = NoUrl
                     THEN broadcast_job(sch, FALSE)
                     ELSE [sch EXCEPT !.pc = "post"]
  /\ UNCHANGED <<sessions, file, msg, now, reply, is_complete, written, tasks, round_base,
                 round_log>>

\* broadcast_image returns, and with it broadcast_pm25_report, to broadcast_job
PostReturns(post) ==
  /\ scheduler.pc = "post"
  /\ LET sch == [scheduler EXCEPT !.firings = update_last(scheduler.firings,
                   [scheduler.firings[Len(scheduler.firings)] EXCEPT !.post = post])]
     IN scheduler' = broadcast_job(sch, broadcast_image(post))
  /\ UNCHANGED <<sessions, file, msg, now, reply, is_complete, written, tasks, round_base,
                 round_log>>

NextScheduler ==
  \/ Startup
  \/ Hour
  \/ \E id \in DOMAIN scheduler.jobs : Fire(id)
  \/ \E fetch \in ImageFetches : ImageReturns(fetch)
  \/ \E post \in Posts : PostReturns(post)

SpecScheduler == Init /\ [][NextScheduler]_vars

\* the firings made at a clock value
FiringsAt(clock) == {i \in 1..Len(scheduler.firings) : scheduler.firings[i].at = clock}

\* the clock values the started scheduler has left behind at which a job
\* fired: a later clock value with the same time of day is due as well
LaterInstants(clock) == {h \in (clock + 1)..now : h % 24 = clock % 24}

(* C25: a scheduled firing calls the broadcast action exactly once whatever
   comes of it: a failed run (no image, a refused post, a timeout raised inside)
   is logged as failed and a successful one as completed, no instant fires
   twice, and every later instant of the same time of day that the clock has
   reached or passed has its own firing, whatever the earlier ones logged. *)
C25_FiringBroadcastsOnce ==
  \A i \in 1..Len(scheduler.firings) :
    LET firing == scheduler.firings[i]
    IN /\ firing.calls = 1
       /\ FiringsAt(firing.at) = {i}
       /\ firing.logged = "completed" => firing.fetch = "found" /\ firing.post = "200"
       /\ firing.logged = "failed" =>
            \/ firing.fetch \in {"no_image", "timeout"} /\ firing.post = "none"
            \/ firing.fetch = "found" /\ firing.post \in {"500", "timeout"}
       /\ (i < Len(scheduler.firings) \/ scheduler.pc = "idle") => firing.logged # "running"
       /\ \A h \in LaterInstants(firing.at) :
            h < now \/ Due(scheduler, now) = {} => FiringsAt(h) # {}

\* a firing whose fetch timed out was logged as failed, and the next day's
\* firing ran and completed
C25_Witness ==
  /\ Len(scheduler.firings) = 2
  /\ scheduler.firings[1].fetch = "timeout"
  /\ scheduler.firings[1].logged = "failed"
  /\ scheduler.firings[2].at = scheduler.firings[1].at + 24
  /\ scheduler.firings[2].logged = "completed"

(* C26: no error of the user's input escapes handle_message: every text    *)
(* handled while the session is in assessment gets the next question, the  *)
(* result, the re-prompt with the valid range or (with a cancel keyword)   *)
(* the cancellation, never a raised error.                                 *)
C26_InputErrorsContained ==
  [][\A u \in Users :
       (TextStep(u) /\ SessionIn(sessions, u).state = ASSESSMENT)
       => /\ reply' # RAISED
          /\ reply'.kind \in {"question", "recommendation", "reprompt",
                              "cancel_assessment"}
     ]_vars

(* C27: in assessment a text without a cancel keyword is only ever an      *)
(* answer, whatever keyword of the Idle table it contains: it never gets   *)
(* the welcome, help, location-request, FAQ or default text, never puts    *)
(* the session into awaiting-location, and never restarts the assessment   *)
(* (the index does not go back, no answer given is lost, and a question    *)
(* returned is the one after the question answered).                       *)
C27_AssessmentTextsAreAnswers ==
  [][\A u \in Users :
       LET old == SessionIn(sessions, u)
           new == SessionIn(sessions', u)
       IN  ( /\ TextStep(u)
             /\ old.state = ASSESSMENT
             /\ ~HasKeyword(msg'.text, CANCEL_KEYWORDS) )
           => /\ reply'.kind \notin {"welcome", "help", "location_request", "faq",
                                    "default", "cancel_assessment", "cancel_location"}
              /\ new.state \in {ASSESSMENT, IDLE}
              /\ new.state = IDLE <=> is_complete'
              /\ new.current_question_index >= old.current_question_index
              /\ DOMAIN old.answers \subseteq DOMAIN new.answers
              /\ reply'.kind = "question" =>
                   reply'.arg = old.current_question_index + 1
              /\ ~ValidAnswerStep(u) => SessionKept(u)
     ]_vars

\* a text with a start keyword, sent after the first answer of an
\* assessment, got the re-prompt and the answer is still there
C27_Witness ==
  /\ msg.type = "text"
  /\ HasKeyword(msg.text, START_KEYWORDS)
  /\ ~HasKeyword(msg.text, CANCEL_KEYWORDS)
  /\ reply.kind = "reprompt"
  /\ sessions[msg.user_id].state = ASSESSMENT
  /\ sessions[msg.user_id].current_question_index = 1
  /\ DOMAIN sessions[msg.user_id].answers # {}

(* C28: in Idle a greeting, a help request, an FAQ answer and the default  *)
(* text each leave state, index, answers and score of the session as they  *)
(* were; the state of an Idle session changes only to awaiting-location,   *)
(* by a text with a check-dust keyword, or to assessment, by a text with a *)
(* start keyword.                                                          *)
C28_IdleRepliesKeepSession ==
  [][\A u \in Users :
       LET old == SessionIn(sessions, u)
           new == SessionIn(sessions', u)
       IN  (TextStep(u) /\ old.state = IDLE)
           => /\ reply'.kind \in {"welcome", "help", "faq", "default"} => SessionKept(u)
              /\ reply'.kind \in {"welcome", "help", "faq", "default",
                                  "location_request", "question"}
              /\ new.state # IDLE =>
                   \/ /\ new.state = AWAITING_LOCATION
                      /\ HasKeyword(msg'.text, CHECK_DUST_KEYWORDS)
                      /\ reply'.kind = "location_request"
                   \/ /\ new.state = ASSESSMENT
                      /\ HasKeyword(msg'.text, START_KEYWORDS)
                      /\ reply'.kind = "question"
     ]_vars

\* a greeting was answered in Idle and the session still holds the answers
\* an earlier assessment left in it
C28_Witness ==
  /\ msg.type = "text"
  /\ HasKeyword(msg.text, GREETING_KEYWORDS)
  /\ reply.kind = "welcome"
  /\ sessions[msg.user_id].state = IDLE
  /\ DOMAIN sessions[msg.user_id].answers # {}

(* C29: an assessment starts clean whatever the session held: the step     *)
(* that takes a session from Idle into assessment leaves it with no        *)
(* answers, score 0 and index 0 and returns question 0, also when a        *)
(* completed assessment or one ended by a location left answers behind;    *)
(* from there on the answers are those of the questions asked in this pass *)
(* and the score is their sum, so no answer of an earlier pass is counted. *)
C29_StartBeginsClean ==
  [][\A u \in Users :
       LET old == SessionIn(sessions, u)
           new == SessionIn(sessions', u)
       IN  /\ (old.state = IDLE /\ new.state = ASSESSMENT)
              => /\ TextStep(u)
                 /\ HasKeyword(msg'.text, START_KEYWORDS)
                 /\ new.answers = EmptyDict
                 /\ new.total_score = 0
                 /\ new.current_question_index = 0
                 /\ reply' = Reply("question", 0)
           /\ new.state = ASSESSMENT
              => /\ DOMAIN new.answers = FirstIds(new.current_question_index)
                 /\ new.total_score = sum_values(new.answers)
     ]_vars

\* a start found an Idle session holding the answer of an assessment that a
\* location had ended, and left it in assessment with no answers
C29_Witness ==
  /\ \E u \in Users :
       /\ u \in DOMAIN round_base
       /\ round_base[u].state = IDLE
       /\ DOMAIN round_base[u].answers # {}
       /\ round_base[u].total_score > 0
       /\ round_log = <<TextMessage(u, <<"s", "t", "a", "r", "t">>)>>
       /\ sessions[u].state = ASSESSMENT
       /\ sessions[u].answers = EmptyDict
       /\ sessions[u].total_score = 0

(* Two users: deliveries of either user handled in any order.  The steps of
   a delivery that touch the sessions (handle_message; handle_location up to
   its await of the dust lookup) hold no await, so between the awaits of one
   delivery the steps of another run whole. *)

TwoUsers == {"u1", "u2"}

\* a start, an answer, a check-dust request, a cancellation
TwoUserTexts ==
  { <<"s", "t", "a", "r", "t">>,
    <<"2">>,
    <<"a", "q", "i">>,
    <<"c", "a", "n", "c", "e", "l">> }

NextUsers ==
  \/ \E user_id \in TwoUsers, text \in TwoUserTexts : HandleTextMessage(user_id, text)
  \/ \E user_id \in TwoUsers : HandleLocationMessage(user_id, "dust_report")

SpecUsers == Init /\ [][NextUsers]_vars

(* C30: handling a text or a location of one user leaves every other user  *)
(* as they were in memory: no session appears or disappears for them, and  *)
(* state, index, answers and score of their session are unchanged,         *)
(* whatever the order in which the deliveries of the users are handled.    *)
C30_UsersIndependent ==
  [][\A a \in TwoUsers, b \in TwoUsers :
       (a # b /\ (TextStep(a) \/ LocationStep(a)))
       => /\ b \in DOMAIN sessions' <=> b \in DOMAIN sessions
          /\ SessionKept(b)
          /\ b \in DOMAIN sessions => sessions'[b] = sessions[b]
     ]_vars

\* one user has just cancelled an assessment with answers while the other,
\* two answers into an assessment, is where they were
C30_Witness ==
  /\ msg = TextMessage("u1", <<"c", "a", "n", "c", "e", "l">>)
  /\ reply = Reply("cancel_assessment", 0)
  /\ "u2" \in DOMAIN sessions
  /\ sessions["u1"].state = IDLE
  /\ sessions["u1"].answers = EmptyDict
  /\ sessions["u2"].state = ASSESSMENT
  /\ sessions["u2"].current_question_index = 2
  /\ sessions["u2"].total_score > 0

(* The process stopping while an answer is handled: process_answer writes  *)
(* the file twice, in add_answer with the score recorded and after that    *)
(* with the index advanced (or the state Idle); a process that stops       *)
(* between the two leaves the first write in the file.                     *)

CrashEvents ==
  { TextMessage("u1", <<"s", "t", "a", "r", "t">>),
    TextMessage("u1", <<"2">>),
    TextMessage("u1", <<"3">>),
    TextMessage("u1", <<"x">>) }

\* the answer whose handling the stop cut short
StoppedMessage(event) == [event EXCEPT !.type = "stopped"]

\* the process is up
Running == msg.type # "stopped"

\* handle_message takes the text to add_answer: the session is in
\* assessment, the text has no cancel keyword and selects an option
reaches_add_answer(st, user_id, text) ==
  LET st1 == get_session(st, user_id)
      session == st1.sessions[user_id]
      question == get_question(session.current_question_index)
  IN  /\ session.state = ASSESSMENT
      /\ ~matches_keywords(strip(lower(text)), CANCEL_KEYWORDS)
      /\ question # NoQuestion
      /\ parse_answer(text, Len(question.options)).kind = "num"

\* process_answer up to the return of add_answer
answer_recorded(st, user_id, text) ==
  LET st1 == get_session(get_session(st, user_id), user_id)
      question == get_question(st1.sessions[user_id].current_question_index)
      answer_num == parse_answer(text, Len(question.options))
  IN  add_answer(st1, user_id, question.id, question.options[answer_num.num])

\* one event through its handler while the process is up; the history keeps
\* the answer a stop cut short, the sessions the stop found and the event
\* handled next
CrashHandleEvent(event) ==
  LET r == handle_event(Store, event)
  IN  /\ Running
      /\ sessions' = r.st.sessions
      /\ file' = r.st.file
      /\ msg' = event
      /\ reply' = r.response
      /\ is_complete' = r.is_complete
      /\ written' = r.st.written
      /\ round_log' = IF Len(round_log) = 1 THEN Append(round_log, event) ELSE <<>>
      /\ round_base' = IF round_log' = <<>> THEN EmptyDict ELSE round_base
      /\ UNCHANGED <<now, tasks, scheduler>>

\* the process stops when add_answer has written the file: its memory is
\* gone and no reply is sent
StopAfterAnswerRecorded(event) ==
  /\ Running
  /\ event.user_id \in DOMAIN sessions
  /\ reaches_add_answer(Store, event.user_id, event.text)
  /\ LET st == answer_recorded(Store, event.user_id, event.text)
     IN  /\ file' = st.file
         /\ written' = st.written
  /\ sessions' = EmptyDict
  /\ msg' = StoppedMessage(event)
  /\ reply' = NONE
  /\ is_complete' = FALSE
  /\ round_base' = sessions
  /\ round_log' = <<StoppedMessage(event)>>
  /\ UNCHANGED <<now, tasks, scheduler>>

NextCrash ==
  \/ \E event \in CrashEvents : CrashHandleEvent(event)
  \/ \E event \in CrashEvents : StopAfterAnswerRecorded(event)
  \/ \E order \in RecordOrders(file) : Restart(order)

SpecCrash == Init /\ [][NextCrash]_vars

(* C31 as stated: a session in assessment between handlings has as keys of *)
(* its answers exactly the ids of the first current_question_index         *)
(* questions.                                                              *)
C31_AnswerKeysMatchIndex ==
  \A u \in DOMAIN sessions :
    sessions[u].state = ASSESSMENT =>
      DOMAIN sessions[u].answers = FirstIds(sessions[u].current_question_index)

(* C31, amended: a session in assessment between handlings has as keys of  *)
(* its answers the ids of the first current_question_index questions, or,  *)
(* when it was loaded from a file in which the answer to the current       *)
(* question is recorded and the index is not advanced, those and the id of *)
(* the current question; the index is below the number of questions.       *)
C31_AnswerKeysMatchIndexOrNext ==
  \A u \in DOMAIN sessions :
    sessions[u].state = ASSESSMENT =>
      /\ sessions[u].current_question_index < N
      /\ \/ DOMAIN sessions[u].answers = FirstIds(sessions[u].current_question_index)
         \/ /\ DOMAIN sessions[u].answers = FirstIds(sessions[u].current_question_index + 1)
            /\ file # TRUNCATED
            /\ u \in DOMAIN file
            /\ SameConversation(file[u], sessions[u])

\* a restart after a stop has loaded a session at the second question that
\* holds the answers to the first and to the second
C31_Witness ==
  /\ msg.type = "restart"
  /\ "u1" \in DOMAIN sessions
  /\ sessions["u1"].state = ASSESSMENT
  /\ sessions["u1"].current_question_index = 1
  /\ DOMAIN sessions["u1"].answers = FirstIds(2)

\* the score of the option the text selects of the session's question
SelectedScore(session, text) ==
  CurrentQuestion(session).options[
    SelectedOption(text, Len(CurrentQuestion(session).options))]

(* C32: when the process stops with the score of a valid answer written    *)
(* and the advanced index not, the file holds the session at the same      *)
(* question with that answer stored; the restart loads it so, the question *)
(* answered is current again, and the next valid answer replaces the       *)
(* stored score under the same id and advances the index by one. Every     *)
(* valid answer leaves one score per question asked so far and their sum   *)
(* as total, and the result shows the sum of one score per question.       *)
C32_StoppedAnswerCountedOnce ==
  [][\A u \in Users :
       LET old == SessionIn(sessions, u)
           new == SessionIn(sessions', u)
       IN  /\ (msg'.type = "stopped" /\ msg'.user_id = u /\ Running)
              => /\ file'[u].state = ASSESSMENT
                 /\ file'[u].current_question_index = old.current_question_index
                 /\ file'[u].answers =
                      dict_set(old.answers, CurrentQuestion(old).id,
                               SelectedScore(old, msg'.text))
           /\ (msg.type = "stopped" /\ msg.user_id = u /\ RestartStep)
              => /\ u \in DOMAIN sessions'
                 /\ SameConversation(sessions'[u], file[u])
                 /\ new.current_question_index = round_base[u].current_question_index
                 /\ CurrentQuestion(new).id \in DOMAIN new.answers
           /\ ValidAnswerStep(u)
              => /\ new.answers = dict_set(old.answers, CurrentQuestion(old).id,
                                           SelectedScore(old, msg'.text))
                 /\ DOMAIN new.answers = FirstIds(old.current_question_index + 1)
                 /\ new.total_score = sum_values(new.answers)
                 /\ new.current_question_index = old.current_question_index + 1
                 /\ is_complete' \/ reply' = Reply("question", new.current_question_index)
           /\ (TextStep(u) /\ is_complete')
              => /\ DOMAIN new.answers = FirstIds(N)
                 /\ reply'.kind = "recommendation"
                 /\ reply'.arg = sum_values(new.answers)
     ]_vars

\* the process stopped on the answer "2" to the second question; after the
\* restart the answer "3" replaced its score, and the session is at the third
\* question with two answers and their sum as total
C32_Witness ==
  /\ round_log = <<StoppedMessage(TextMessage("u1", <<"2">>)), TextMessage("u1", <<"3">>)>>
  /\ round_base["u1"].current_question_index = 1
  /\ msg = TextMessage("u1", <<"3">>)
  /\ reply = Reply("question", 2)
  /\ sessions["u1"].current_question_index = 2
  /\ DOMAIN sessions["u1"].answers = FirstIds(2)
  /\ sessions["u1"].answers[ALL_QUESTIONS[2].id] = 2
  /\ sessions["u1"].total_score = sum_values(sessions["u1"].answers)

(* C33: a session is not dropped as expired while its user is active: at a *)
(* restart that finds the last write of the file succeeded and the file    *)
(* holding the conversation of every user in memory, every user whose most *)
(* recent message of any kind was handled less than 24 hours ago is in     *)
(* memory afterwards with the same state, index, answers and score.        *)
C33_ActiveUserKept ==
  [][ (RestartStep /\ written = "ok" /\ PersistedMatches(file, sessions))
      => \A u \in DOMAIN sessions :
           now - sessions[u].last_activity < SESSION_TIMEOUT_HOURS
           => /\ u \in DOMAIN sessions'
              /\ SameConversation(sessions'[u], sessions[u]) ]_vars
====
